---------------------------- MODULE Spec2Model ----------------------------
(***************************************************************************)
(* dir-edit (dir_edit.py): rename or remove the entries of a directory by   *)
(* editing a list of paths.  The model follows dir_edit(): get_file_lists, *)
(* generate_mapping, decompose_mapping, generate_operations and             *)
(* execute_operations, over an explicit model of the directory tree.        *)
(*                                                                         *)
(* A path string is modelled as the sequence of its components, so that    *)
(* 'a/b' is <<"a", "b">>.  An unnormalised input line may hold the          *)
(* components "" (from '//' or a trailing '/'), "." and "..".              *)
(***************************************************************************)
EXTENDS Naturals, Sequences, FiniteSets, TLC

VARIABLES
    pc,                 \* position in dir_edit(): "start", "lists", "mapped",
                        \* "decomposed", "running", "done", "aborted", "error"
    args,               \* parsed command line options (the flags the core reads)
    input_file_list,    \* the before-list (raw lines)
    output_file_list,   \* the after-list (raw lines)
    renames,            \* generate_mapping: dict src -> dst
    removals,           \* generate_mapping: list of paths to remove
    paths,              \* decompose_mapping: the chains, in extraction order
    cycles,             \* decompose_mapping: the cycles, in extraction order
    ops,                \* generate_operations: the plan
    ip,                 \* execute_operations: number of operations processed
    fs,                 \* the directory tree below the working directory
    fs0,                \* the directory tree when the run started
    warnings,           \* messages passed to warning()
    error,              \* the Error raised, <<>> when none
    logfile,            \* lines printed to args.logfile
    platform            \* sys.platform: "linux" or "darwin"

vars == <<pc, args, input_file_list, output_file_list, renames, removals,
          paths, cycles, ops, ip, fs, fs0, warnings, error, logfile, platform>>

-----------------------------------------------------------------------------
(* Bounds of the model.                                                    *)

\* Largest number of lines of a before-list.
MaxEntries == 3

-----------------------------------------------------------------------------
(* Sequences and paths.                                                    *)

Front(s) == SubSeq(s, 1, Len(s) - 1)

Last(s) == s[Len(s)]

Range(s) == {s[i] : i \in 1..Len(s)}

IsPrefix(p, q) == Len(p) <= Len(q) /\ SubSeq(q, 1, Len(p)) = p

\* q lies strictly below p
IsBelow(q, p) == Len(p) < Len(q) /\ SubSeq(q, 1, Len(p)) = p

RECURSIVE SumLen(_)
SumLen(s) == IF s = <<>> THEN 0 ELSE Len(Head(s)) + SumLen(Tail(s))

\* len() of the path string: the components and the separators between them
StrLen(p) == IF p = <<>> THEN 0 ELSE SumLen(p) + (Len(p) - 1)

\* All orderings of the finite set S
RECURSIVE Perms(_)
Perms(S) ==
    IF S = {} THEN {<<>>}
    ELSE UNION {{<<x>> \o t : t \in Perms(S \ {x})} : x \in S}

\* Absolute path of the working directory (args.dir after os.chdir)
Cwd == <<"t", "w">>

\* A line of a file list: an absolute or relative path string
Rel(comps) == [abs |-> FALSE, comps |-> comps]

Abs(comps) == [abs |-> TRUE, comps |-> comps]

\* The empty line
Blank == Rel(<<>>)

\* The component that stands for a file name holding a newline
NewlineName == "n\nl"

RECURSIVE normpath_comps(_, _, _)
normpath_comps(comps, initial_slashes, new_comps) ==
    IF comps = <<>> THEN new_comps
    ELSE LET comp == Head(comps)
             rest == Tail(comps)
         IN  IF comp \in {"", "."}
             THEN normpath_comps(rest, initial_slashes, new_comps)
             ELSE IF \/ comp # ".."
                     \/ (~initial_slashes /\ new_comps = <<>>)
                     \/ (new_comps # <<>> /\ Last(new_comps) = "..")
             THEN normpath_comps(rest, initial_slashes, Append(new_comps, comp))
             ELSE IF new_comps # <<>>
             THEN normpath_comps(rest, initial_slashes, Front(new_comps))
             ELSE normpath_comps(rest, initial_slashes, new_comps)

\* os.path.abspath: join with the working directory, then normpath
abspath(raw) ==
    normpath_comps(IF raw.abs THEN raw.comps ELSE Cwd \o raw.comps, TRUE, <<>>)

RECURSIVE CommonLen(_, _)
CommonLen(s, t) ==
    IF s = <<>> \/ t = <<>> \/ Head(s) # Head(t) THEN 0
    ELSE 1 + CommonLen(Tail(s), Tail(t))

\* os.path.relpath(path) for a non-empty path string
relpath(raw) ==
    LET path_list == abspath(raw)
        i == CommonLen(Cwd, path_list)
        rel_list == [k \in 1..(Len(Cwd) - i) |-> ".."]
                        \o SubSeq(path_list, i + 1, Len(path_list))
    IN  IF rel_list = <<>> THEN <<".">> ELSE rel_list

\* relpath.startswith(os.pardir + os.sep)
StartsWithPardirSep(rel) == Len(rel) >= 2 /\ rel[1] = ".."

\* make_relpath: [err, path]; err is "" when a relative path is returned
make_relpath(raw) ==
    IF raw = Blank
    THEN [err |-> "no path specified", path |-> <<>>]
    ELSE LET rel == relpath(raw)
         IN  IF StartsWithPardirSep(rel)
             THEN [err |-> "leads outside given directory", path |-> rel]
             ELSE [err |-> "", path |-> rel]

\* normcase: the identity on POSIX, lower case on Mac OS X and Windows.
\* The names of the model are lower case except those listed here.
Lower(name) ==
    CASE name = "A" -> "a"
      [] name = "B" -> "b"
      [] name = "X" -> "x"
      [] OTHER -> name

normcase(path) ==
    IF platform = "darwin" THEN [i \in 1..Len(path) |-> Lower(path[i])] ELSE path

-----------------------------------------------------------------------------
(* The directory tree.  fs maps the physical path of every entry below the  *)
(* working directory to [kind, id, to]: kind is "file", "dir" or "link",    *)
(* id is the identity (content) of the entry, to is the target of a link   *)
(* (a path from the working directory).  The working directory itself is   *)
(* <<>>; its parent is Outside.                                            *)

\* No such location (a missing or non-directory path component)
NoPath == <<"?">>

\* The parent of the working directory
Outside == <<"..">>

\* Identity of a directory created during the run
NewId == <<>>

Node(kind, id, to) == [kind |-> kind, id |-> id, to |-> to]

\* The entry a location names.  On Mac OS X the names of a directory are
\* looked up without regard to case: the location of the entry stored under
\* a name that differs in case only, if there is one
Canon(tree, q) ==
    IF platform # "darwin" \/ q \in DOMAIN tree THEN q
    ELSE LET same == {r \in DOMAIN tree :
                        Front(r) = Front(q) /\ Lower(Last(r)) = Lower(Last(q))}
         IN  IF same = {} THEN q ELSE CHOOSE r \in same : TRUE

\* The element of a singleton set
Only(S) == CHOOSE x \in S : TRUE

\* One component c resolved in the directory par
realstep(tree, par, c) ==
    IF par = NoPath THEN NoPath
    ELSE IF c \in {"", "."} THEN par
    ELSE IF c = ".." THEN (IF par \in {<<>>, Outside} THEN Outside ELSE Front(par))
    ELSE IF par = Outside THEN NoPath
    ELSE Only({IF q \notin DOMAIN tree THEN NoPath
               ELSE IF tree[q].kind = "dir" THEN q
               ELSE IF /\ tree[q].kind = "link"
                       /\ tree[q].to \in DOMAIN tree
                       /\ tree[tree[q].to].kind = "dir"
               THEN tree[q].to
               ELSE NoPath : q \in {Canon(tree, Append(par, c))}})

\* The directory a path names, symbolic links followed, or NoPath
RECURSIVE realdir(_, _)
realdir(tree, d) ==
    IF d = <<>> THEN <<>>
    ELSE Only({realstep(tree, par, Last(d)) : par \in {realdir(tree, Front(d))}})

\* The location a path names, a symbolic link as last component not followed
Phys(tree, p) ==
    Only({IF par = NoPath THEN NoPath
          ELSE IF Last(p) \in {"", ".", ".."} THEN realstep(tree, par, Last(p))
          ELSE IF par = Outside THEN NoPath
          ELSE Canon(tree, Append(par, Last(p))) : par \in {realdir(tree, Front(p))}})

\* The location is the working directory or its parent
Special(q) == q \in {<<>>, Outside}

\* Variant: the existence check follows a symbolic link
lexists_follow(tree, p) ==
    LET q == Phys(tree, p)
    IN  /\ q # NoPath
        /\ \/ Special(q)
           \/ /\ q \in DOMAIN tree
              /\ tree[q].kind = "link" => tree[q].to \in DOMAIN tree

lexists(tree, p) ==
    LET q == Phys(tree, p) IN q # NoPath /\ (Special(q) \/ q \in DOMAIN tree)

islink(tree, p) ==
    LET q == Phys(tree, p) IN q \in DOMAIN tree /\ tree[q].kind = "link"

isdir(tree, p) == realdir(tree, p) # NoPath

\* os.path.exists: symbolic links followed
exists(tree, p) ==
    LET q == Phys(tree, p)
    IN  /\ q # NoPath
        /\ \/ Special(q)
           \/ /\ q \in DOMAIN tree
              /\ tree[q].kind = "link" => tree[q].to \in DOMAIN tree

Children(tree, d) == {q \in DOMAIN tree : Front(q) = d}

\* os.listdir of a directory: the names in it
listdir(tree, p) ==
    LET d == realdir(tree, p)
    IN  IF d = Outside THEN {Last(Cwd)} ELSE {Last(q) : q \in Children(tree, d)}

\* The tree without the entry at q and everything below it
Without(tree, q) ==
    [r \in {r \in DOMAIN tree : ~IsPrefix(q, r)} |-> tree[r]]

\* The tree with the entry at s, and everything below it, moved to d
Moved(tree, s, d) ==
    LET kept == {r \in DOMAIN tree : ~IsPrefix(s, r) /\ ~IsPrefix(d, r)}
        moved == {d \o SubSeq(r, Len(s) + 1, Len(r)) : r \in {r \in DOMAIN tree : IsPrefix(s, r)}}
    IN  [r \in kept \cup moved |->
            IF IsPrefix(d, r) THEN tree[s \o SubSeq(r, Len(d) + 1, Len(r))] ELSE tree[r]]

\* The outcome of a file system call: err is "" on success
Result(err, tree) == [err |-> err, fs |-> tree]

\* os.rename: replaces an existing file (or empty directory) at dst
os_rename(tree, src, dst) ==
    LET s == Phys(tree, src)
        d == Phys(tree, dst)
    IN  IF s = NoPath \/ d = NoPath THEN Result("ENOENT", tree)
        ELSE IF Special(s) \/ Special(d) THEN Result("EBUSY", tree)
        ELSE IF s \notin DOMAIN tree THEN Result("ENOENT", tree)
        ELSE IF s = d
        THEN Result("", Moved(tree, s, Append(Front(s), Last(dst))))
        ELSE IF IsPrefix(s, d) THEN Result("EINVAL", tree)
        ELSE IF d \in DOMAIN tree /\ tree[d].kind = "dir" /\ tree[s].kind # "dir"
        THEN Result("EISDIR", tree)
        ELSE IF d \in DOMAIN tree /\ tree[d].kind # "dir" /\ tree[s].kind = "dir"
        THEN Result("ENOTDIR", tree)
        ELSE IF d \in DOMAIN tree /\ Children(tree, d) # {}
        THEN Result("ENOTEMPTY", tree)
        ELSE Result("", Moved(tree, s, d))

os_mkdir(tree, p) ==
    LET q == Phys(tree, p)
    IN  IF q = NoPath THEN Result("ENOENT", tree)
        ELSE IF Special(q) \/ q \in DOMAIN tree THEN Result("EEXIST", tree)
        ELSE Result("", [r \in DOMAIN tree \cup {q} |->
                            IF r = q THEN Node("dir", NewId, <<>>) ELSE tree[r]])

os_rmdir(tree, p) ==
    LET q == Phys(tree, p)
    IN  IF q = NoPath THEN Result("ENOENT", tree)
        ELSE IF Special(q) THEN Result("EINVAL", tree)
        ELSE IF q \notin DOMAIN tree THEN Result("ENOENT", tree)
        ELSE IF tree[q].kind # "dir" THEN Result("ENOTDIR", tree)
        ELSE IF Children(tree, q) # {} THEN Result("ENOTEMPTY", tree)
        ELSE Result("", Without(tree, q))

os_remove(tree, p) ==
    LET q == Phys(tree, p)
    IN  IF q = NoPath THEN Result("ENOENT", tree)
        ELSE IF Special(q) THEN Result("EISDIR", tree)
        ELSE IF q \notin DOMAIN tree THEN Result("ENOENT", tree)
        ELSE IF tree[q].kind = "dir" THEN Result("EISDIR", tree)
        ELSE Result("", Without(tree, q))

\* Variant: the recursive removal follows the symbolic links in the directory
shutil_rmtree_follow(tree, p) ==
    LET q == Phys(tree, p)
        targets == {tree[r].to : r \in {r \in DOMAIN tree :
                        IsBelow(r, q) /\ tree[r].kind = "link"}}
    IN  IF q = NoPath \/ Special(q) \/ q \notin DOMAIN tree
        THEN Result("ENOENT", tree)
        ELSE Result("", [r \in {r \in DOMAIN tree :
                            /\ ~IsPrefix(q, r)
                            /\ \A t \in targets : ~IsPrefix(t, r)} |-> tree[r]])

\* shutil.rmtree: refuses a symbolic link; removing '.' or '..' empties the
\* working directory and then fails on the directory itself
shutil_rmtree(tree, p) ==
    LET q == Phys(tree, p)
    IN  IF q = NoPath THEN Result("ENOENT", tree)
        ELSE IF Special(q) THEN Result("EINVAL", Without(tree, <<>>))
        ELSE IF q \notin DOMAIN tree THEN Result("ENOENT", tree)
        ELSE IF tree[q].kind = "link" THEN Result("ELINK", tree)
        ELSE IF tree[q].kind # "dir" THEN Result("ENOTDIR", tree)
        ELSE Result("", Without(tree, q))

\* os.makedirs(path, exist_ok=True): create the missing ancestors, then the
\* directory; an existing directory is accepted
RECURSIVE makedirs_exist_ok(_, _)
makedirs_exist_ok(tree, p) ==
    LET head == Front(p)
        above == IF head # <<>> /\ ~exists(tree, head)
                 THEN makedirs_exist_ok(tree, head)
                 ELSE Result("", tree)
        made == os_mkdir(above.fs, p)
    IN  IF above.err \notin {"", "EEXIST"} THEN above
        ELSE IF made.err = "" THEN made
        ELSE IF isdir(above.fs, p) THEN Result("", above.fs)
        ELSE made

\* Variant: rename without the check of the destination
rename_clobber(tree, src, dst) ==
    LET r == os_rename(tree, src, dst)
    IN  [err |-> r.err, fs |-> r.fs, warn |-> <<>>]

\* rename(): do not overwrite an existing path.  [err, fs, warn]
rename(tree, src, dst) ==
    IF lexists(tree, dst)
    THEN [err |-> "", fs |-> tree, warn |-> <<<<"exists", dst>>>>]
    ELSE LET r == os_rename(tree, src, dst)
         IN  [err |-> r.err, fs |-> r.fs, warn |-> <<>>]

-----------------------------------------------------------------------------
(* Operations of a plan: [cmd, args]; cmd is the shell rendering of the     *)
(* function, "cd" being the operation without a function.                  *)

Op(cmd, fargs) == [cmd |-> cmd, args |-> fargs]

cd_ops(path) == <<Op("cd", <<path>>)>>

rmdir_ops(path) == <<Op("rmdir", <<path>>)>>

makedirs_ops(path) == <<Op("mkdir -p", <<path>>)>>

mkdir_ops(path) == <<Op("mkdir", <<path>>)>>

remove_ops(path) == <<Op("rm", <<path>>)>>

rmtree_ops(path) == <<Op("rm -r", <<path>>)>>

\* Variant: the destination is probed when the plan is built and the rename
\* left out when it exists
rename_ops_probe(src, dst) ==
    IF lexists(fs0, dst) THEN <<>> ELSE <<[cmd |-> "mv -n", args |-> <<src, dst>>]>>

rename_ops(src, dst) == <<Op("mv -n", <<src, dst>>)>>

\* Variant: the directory test comes first, a link to a directory is a directory
path_remove_ops_follow(tree, path, recursive) ==
    IF ~isdir(tree, path)
    THEN [ops |-> remove_ops(path), warn |-> <<>>]
    ELSE IF listdir(tree, path) # {}
    THEN IF recursive
         THEN [ops |-> rmtree_ops(path), warn |-> <<>>]
         ELSE [ops |-> <<>>, warn |-> <<<<"not empty", path>>>>]
    ELSE [ops |-> rmdir_ops(path), warn |-> <<>>]

\* Variant: a directory with entries is handed to rmdir without -R
path_remove_ops_rmdir(tree, path, recursive) ==
    IF islink(tree, path) \/ ~isdir(tree, path)
    THEN [ops |-> remove_ops(path), warn |-> <<>>]
    ELSE IF listdir(tree, path) # {} /\ recursive
    THEN [ops |-> rmtree_ops(path), warn |-> <<>>]
    ELSE [ops |-> rmdir_ops(path), warn |-> <<>>]

\* path_remove_ops: [ops, warn], decided from the tree at planning time
path_remove_ops(tree, path, recursive) ==
    IF islink(tree, path) \/ ~isdir(tree, path)
    THEN [ops |-> remove_ops(path), warn |-> <<>>]
    ELSE IF listdir(tree, path) # {}
    THEN IF recursive
         THEN [ops |-> rmtree_ops(path), warn |-> <<>>]
         ELSE [ops |-> <<>>, warn |-> <<<<"not empty", path>>>>]
    ELSE [ops |-> rmdir_ops(path), warn |-> <<>>]

-----------------------------------------------------------------------------
(* get_file_lists                                                          *)

\* os.lstat of a line of the input list succeeds.  Paths outside the working
\* directory are taken to exist.
lstat_ok(tree, raw) ==
    IF raw = Blank THEN FALSE
    ELSE IF relpath(raw)[1] = ".." THEN TRUE
    ELSE IF raw.abs
    THEN LET a == abspath(raw)
         IN  lexists(tree, SubSeq(a, Len(Cwd) + 1, Len(a)))
    ELSE lexists(tree, raw.comps)

HasNewline(raw) == \E i \in 1..Len(raw.comps) : raw.comps[i] = NewlineName

\* check_file_list and the checks of get_input_file_list: the Error, or <<>>
input_error(tree, file_list, mangle_newlines) ==
    IF \E i \in 1..Len(file_list) : ~lstat_ok(tree, file_list[i])
    THEN LET i == CHOOSE i \in 1..Len(file_list) :
                    /\ ~lstat_ok(tree, file_list[i])
                    /\ \A j \in 1..(i - 1) : lstat_ok(tree, file_list[j])
         IN  <<"ENOENT", file_list[i]>>
    ELSE IF file_list = <<>>
    THEN <<"no valid path given for renaming">>
    ELSE IF ~mangle_newlines /\ \E i \in 1..Len(file_list) : HasNewline(file_list[i])
    THEN <<"file names with newlines are not supported">>
    ELSE <<>>

\* Variant: get_file_lists without the comparison of the lengths
get_file_lists_any_length(tree, file_list, out_list, mangle_newlines) ==
    input_error(tree, file_list, mangle_newlines)

\* get_file_lists: the Error, or <<>>
get_file_lists_error(tree, file_list, out_list, mangle_newlines) ==
    IF input_error(tree, file_list, mangle_newlines) # <<>>
    THEN input_error(tree, file_list, mangle_newlines)
    ELSE IF Len(file_list) # Len(out_list)
    THEN <<"new file list has different length than old">>
    ELSE <<>>

-----------------------------------------------------------------------------
(* generate_mapping                                                        *)

EmptyMap == [x \in {} |-> x]

Put(f, k, v) == [x \in DOMAIN f \cup {k} |-> IF x = k THEN v ELSE f[x]]

Min(m, n) == IF m <= n THEN m ELSE n

\* Variant: no source counts as seen before
src_never_seen(seen, key) == FALSE

\* src in src_seen
src_duplicate(seen, key) == key \in DOMAIN seen

\* Variant: no destination counts as seen before
dst_never_seen(seen, key) == FALSE

\* dst in dst_seen
dst_duplicate(seen, key) == key \in DOMAIN seen

\* Variant: no pair counts as a self loop
never_self_loop(src, dst) == FALSE

\* not (src != dst): the pair needs no renaming
self_loop(src, dst) == src = dst

\* The loop of generate_mapping from pair i on; st holds renames, removals,
\* src_seen and dst_seen.  Returns [err, renames, removals].
RECURSIVE generate_mapping_from(_, _, _, _)
generate_mapping_from(ins, outs, i, st) ==
    IF i > Min(Len(ins), Len(outs))
    THEN [err |-> <<>>, renames |-> st.renames, removals |-> st.removals]
    ELSE LET srcfile == ins[i]
             dstfile == outs[i]
             s == make_relpath(srcfile)
             d == make_relpath(dstfile)
             src == s.path
             dst == d.path
             st1 == [st EXCEPT !.src_seen = Put(st.src_seen, src, srcfile)]
             st2 == [st1 EXCEPT !.dst_seen = Put(st1.dst_seen, dst, dstfile)]
         IN  IF s.err # ""
             THEN [err |-> <<s.err, srcfile>>, renames |-> st.renames, removals |-> st.removals]
             ELSE IF src_duplicate(st.src_seen, src)
             THEN [err |-> <<"duplicate input entries", srcfile, st.src_seen[src]>>,
                   renames |-> st.renames, removals |-> st.removals]
             ELSE IF dstfile = Blank
             THEN generate_mapping_from(ins, outs, i + 1,
                      [st1 EXCEPT !.removals = Append(st1.removals, src)])
             ELSE IF d.err # ""
             THEN [err |-> <<d.err, dstfile>>, renames |-> st.renames, removals |-> st.removals]
             ELSE IF dst_duplicate(st1.dst_seen, dst)
             THEN [err |-> <<"duplicate target entries", dstfile, st1.dst_seen[dst]>>,
                   renames |-> st.renames, removals |-> st.removals]
             ELSE IF ~self_loop(src, dst)
             THEN generate_mapping_from(ins, outs, i + 1,
                      [st2 EXCEPT !.renames = Put(st2.renames, src, dst)])
             ELSE generate_mapping_from(ins, outs, i + 1, st2)

generate_mapping(ins, outs) ==
    generate_mapping_from(ins, outs, 1,
        [renames |-> EmptyMap, removals |-> <<>>,
         src_seen |-> EmptyMap, dst_seen |-> EmptyMap])

-----------------------------------------------------------------------------
(* decompose_mapping                                                       *)

Remove(f, k) == [x \in DOMAIN f \ {k} |-> f[x]]

Values(f) == {f[x] : x \in DOMAIN f}

\* Variant: the walk stops after its first edge
walk_single(mapping, path) == [mapping |-> mapping, path |-> path]

\* Variant: the walk pops the next edge without recording it
walk_drop(mapping, path) ==
    IF Last(path) \in DOMAIN mapping
    THEN [mapping |-> Remove(mapping, Last(path)), path |-> path]
    ELSE [mapping |-> mapping, path |-> path]

\* The inner loop: follow the mapping from the end of path, popping each edge
RECURSIVE walk(_, _)
walk(mapping, path) ==
    IF Last(path) \in DOMAIN mapping
    THEN walk(Remove(mapping, Last(path)), Append(path, mapping[Last(path)]))
    ELSE [mapping |-> mapping, path |-> path]

\* Variant: the ends of the walk are compared as they are
is_cycle_exact(path) == path[1] = Last(path)

\* Use normcase to allow case-renaming on Windows
is_cycle(path) == normcase(path[1]) = normcase(Last(path))

\* Variant: a walk starts from any key left in the mapping
start_keys_any(mapping, srcs) == DOMAIN mapping

\* The keys the next walk may start from: srcs.pop() while srcs is not empty,
\* else mapping.popitem().  Both may return any element.
start_keys(mapping, srcs) == IF srcs # {} THEN srcs ELSE DOMAIN mapping

\* The outer loop.  The set of the possible results [paths, cycles], one for
\* each order in which the set and the dict hand out their elements.
RECURSIVE decompose_from(_, _, _, _)
decompose_from(mapping, srcs, ps, cs) ==
    IF DOMAIN mapping = {} THEN {[paths |-> ps, cycles |-> cs]}
    ELSE UNION {
            LET w == walk(Remove(mapping, src), <<src, mapping[src]>>)
            IN  IF is_cycle(w.path)
                THEN decompose_from(w.mapping, srcs \ {src}, ps, Append(cs, w.path))
                ELSE decompose_from(w.mapping, srcs \ {src}, Append(ps, w.path), cs)
            : src \in start_keys(mapping, srcs)}

decompose_mapping(mapping) ==
    decompose_from(mapping, DOMAIN mapping \ Values(mapping), <<>>, <<>>)

-----------------------------------------------------------------------------
(* generate_operations                                                     *)

\* tmpname(): 'tmp_' and twenty random characters, a name no entry has
TmpName == "tmp_r"

\* dirnames: all os.path.dirname()s of a relative path
dirnames(path) == {SubSeq(path, 1, k) : k \in 1..(Len(path) - 1)}

\* dst.startswith(src + os.sep)
inside(dst, src) == IsBelow(dst, src)

\* Variant: the pairs in the order of the path, first edge first
pairwise_head_first(path) ==
    [k \in 1..(Len(path) - 1) |-> [dst |-> path[k + 1], src |-> path[k]]]

\* pairwise(reversed(path)): the pairs [dst, src], last edge first
pairwise_reversed(path) ==
    [k \in 1..(Len(path) - 1) |->
        [dst |-> path[Len(path) - k + 1], src |-> path[Len(path) - k]]]

RECURSIVE Flatten(_)
Flatten(ss) == IF ss = <<>> THEN <<>> ELSE Head(ss) \o Flatten(Tail(ss))

\* The edges of all chains that are not moves into the source itself
plain_edges(ps) ==
    {e \in Range(Flatten([i \in 1..Len(ps) |-> pairwise_reversed(ps[i])])) :
        ~inside(e.dst, e.src)}

src_dirs(ps) == UNION {dirnames(e.src) : e \in plain_edges(ps)}

dst_dirs(ps) == UNION {dirnames(e.dst) : e \in plain_edges(ps)}

\* sorted(S, key=len): every order of the set the sort may return
sorted_by_len(S) ==
    {q \in Perms(S) : \A i, j \in 1..Len(q) : i < j => StrLen(q[i]) <= StrLen(q[j])}

\* Variant: the cleanup sorted without reverse, shortest first
sorted_by_len_ascending(S) == sorted_by_len(S)

\* sorted(S, key=len, reverse=True)
sorted_by_len_reverse(S) ==
    {q \in Perms(S) : \A i, j \in 1..Len(q) : i < j => StrLen(q[i]) >= StrLen(q[j])}

\* create_tmpdir: st is [ops, tmpdir]; tmpdir is <<>> until it is created
create_tmpdir(st) ==
    IF st.tmpdir = <<>>
    THEN [ops |-> st.ops \o mkdir_ops(<<TmpName>>), tmpdir |-> <<TmpName>>]
    ELSE st

\* Variant: the removal is planned whether or not the directory was created
remove_tmpdir_always(tmpdir) == rmdir_ops(<<TmpName>>)

remove_tmpdir(tmpdir) == IF tmpdir # <<>> THEN rmdir_ops(tmpdir) ELSE <<>>

\* Variant: every chain edge is a bare rename
edge_ops_direct(st, e) ==
    [st EXCEPT !.ops = st.ops \o rename_ops(e.src, e.dst)]

\* The operations of one chain edge
edge_ops(st, e) ==
    IF inside(e.dst, e.src)
    THEN LET t == create_tmpdir(st)
             tmp == Append(t.tmpdir, Last(e.src))
         IN  [t EXCEPT !.ops = t.ops \o rename_ops(e.src, tmp)
                                     \o makedirs_ops(Front(e.dst))
                                     \o rename_ops(tmp, e.dst)]
    ELSE [st EXCEPT !.ops = st.ops \o rename_ops(e.src, e.dst)]

RECURSIVE edges_ops(_, _)
edges_ops(st, edges) ==
    IF edges = <<>> THEN st ELSE edges_ops(edge_ops(st, Head(edges)), Tail(edges))

RECURSIVE paths_ops(_, _)
paths_ops(st, ps) ==
    IF ps = <<>> THEN st
    ELSE paths_ops(edges_ops(st, pairwise_reversed(Head(ps))), Tail(ps))

RECURSIVE bare_rename_ops(_)
bare_rename_ops(edges) ==
    IF edges = <<>> THEN <<>>
    ELSE rename_ops(Head(edges).src, Head(edges).dst) \o bare_rename_ops(Tail(edges))

\* Variant: a cycle renamed like a chain, nothing evacuated
cycle_ops_direct(st, cycle) ==
    [st EXCEPT !.ops = st.ops \o bare_rename_ops(pairwise_reversed(cycle))]

\* Variant: the first element is evacuated but not replaced in the cycle
cycle_ops_unsubstituted(st, cycle) ==
    LET t == create_tmpdir(st)
        tmp == Append(t.tmpdir, Last(cycle[1]))
    IN  [t EXCEPT !.ops = t.ops \o rename_ops(cycle[1], tmp)
                                \o bare_rename_ops(pairwise_reversed(cycle))]

\* The operations of one cycle
cycle_ops(st, cycle) ==
    LET t == create_tmpdir(st)
        tmp == Append(t.tmpdir, Last(cycle[1]))
        staged == [cycle EXCEPT ![1] = tmp]
    IN  [t EXCEPT !.ops = t.ops \o rename_ops(cycle[1], tmp)
                                \o bare_rename_ops(pairwise_reversed(staged))]

RECURSIVE cycles_ops(_, _)
cycles_ops(st, cs) ==
    IF cs = <<>> THEN st ELSE cycles_ops(cycle_ops(st, Head(cs)), Tail(cs))

\* The removal operations and warnings of the removals, in order
RECURSIVE removals_ops(_, _, _)
removals_ops(tree, rems, recursive) ==
    IF rems = <<>> THEN [ops |-> <<>>, warn |-> <<>>]
    ELSE LET h == path_remove_ops(tree, Head(rems), recursive)
             t == removals_ops(tree, Tail(rems), recursive)
         IN  [ops |-> h.ops \o t.ops, warn |-> h.warn \o t.warn]

RECURSIVE makedirs_all(_)
makedirs_all(dirs) ==
    IF dirs = <<>> THEN <<>> ELSE makedirs_ops(Head(dirs)) \o makedirs_all(Tail(dirs))

\* Variant: no cleanup of source directories
rmdir_none(dirs) == <<>>

RECURSIVE rmdir_all(_)
rmdir_all(dirs) ==
    IF dirs = <<>> THEN <<>> ELSE rmdir_ops(Head(dirs)) \o rmdir_all(Tail(dirs))

\* Variant: the removals are planned after the renames and the cleanup
generate_operations_removals_last(ps, cs, rems, tree, recursive, created, cleaned) ==
    LET rm == removals_ops(tree, rems, recursive)
        st0 == [ops |-> cd_ops(Cwd) \o makedirs_all(created), tmpdir |-> <<>>]
        st1 == paths_ops(st0, ps)
        st2 == [st1 EXCEPT !.ops = st1.ops \o rmdir_all(cleaned) \o rm.ops]
        st3 == cycles_ops(st2, cs)
    IN  [ops |-> st3.ops \o remove_tmpdir(st3.tmpdir), warn |-> rm.warn]

\* generate_operations; created and cleaned are the two sorted() results.
\* Returns [ops, warn].
generate_operations(ps, cs, rems, tree, recursive, created, cleaned) ==
    LET rm == removals_ops(tree, rems, recursive)
        st0 == [ops |-> cd_ops(Cwd) \o rm.ops \o makedirs_all(created),
                tmpdir |-> <<>>]
        st1 == paths_ops(st0, ps)
        st2 == [st1 EXCEPT !.ops = st1.ops \o rmdir_all(cleaned)]
        st3 == cycles_ops(st2, cs)
    IN  [ops |-> st3.ops \o remove_tmpdir(st3.tmpdir), warn |-> rm.warn]

-----------------------------------------------------------------------------
(* execute_operations                                                      *)

\* fun(*fargs): [err, fs, warn]
apply_op(tree, op) ==
    LET plain(r) == [err |-> r.err, fs |-> r.fs, warn |-> <<>>]
    IN  CASE op.cmd = "rmdir" -> plain(os_rmdir(tree, op.args[1]))
          [] op.cmd = "mkdir -p" -> plain(makedirs_exist_ok(tree, op.args[1]))
          [] op.cmd = "mkdir" -> plain(os_mkdir(tree, op.args[1]))
          [] op.cmd = "rm" -> plain(os_remove(tree, op.args[1]))
          [] op.cmd = "rm -r" -> plain(shutil_rmtree(tree, op.args[1]))
          [] op.cmd = "mv -n" -> rename(tree, op.args[1], op.args[2])
          [] OTHER -> [err |-> "", fs |-> tree, warn |-> <<>>]

\* Names that start with '-'
DashNames == {"-"}

\* The line printed in verbose mode: [cmd, sep, args]
render(op) ==
    [cmd |-> op.cmd,
     sep |-> IF \E i \in 1..Len(op.args) : op.args[i][1] \in DashNames
             THEN " -- " ELSE " ",
     args |-> op.args]

-----------------------------------------------------------------------------
(* The steps of dir_edit()                                                 *)

GetFileLists ==
    /\ pc = "start"
    /\ LET e == get_file_lists_error(fs, input_file_list, output_file_list,
                                     args.mangle_newlines)
       IN  /\ error' = e
           /\ pc' = IF e = <<>> THEN "lists" ELSE "error"
    /\ UNCHANGED <<args, input_file_list, output_file_list, renames, removals,
                   paths, cycles, ops, ip, fs, fs0, warnings, logfile, platform>>

GenerateMapping ==
    /\ pc = "lists"
    /\ LET m == generate_mapping(input_file_list, output_file_list)
       IN  /\ error' = m.err
           /\ pc' = IF m.err = <<>> THEN "mapped" ELSE "error"
           /\ renames' = IF m.err = <<>> THEN m.renames ELSE renames
           /\ removals' = IF m.err = <<>> THEN m.removals ELSE removals
    /\ UNCHANGED <<args, input_file_list, output_file_list, paths, cycles, ops,
                   ip, fs, fs0, warnings, logfile, platform>>

DecomposeMapping ==
    /\ pc = "mapped"
    /\ \E d \in decompose_mapping(renames) :
            /\ paths' = d.paths
            /\ cycles' = d.cycles
    /\ pc' = "decomposed"
    /\ UNCHANGED <<args, input_file_list, output_file_list, renames, removals,
                   ops, ip, fs, fs0, warnings, error, logfile, platform>>

GenerateOperations ==
    /\ pc = "decomposed"
    /\ \E created \in sorted_by_len(dst_dirs(paths) \ src_dirs(paths)),
          cleaned \in sorted_by_len_reverse(src_dirs(paths) \ dst_dirs(paths)) :
            LET g == generate_operations(paths, cycles, removals, fs,
                                         args.remove_recursive, created, cleaned)
            IN  /\ ops' = g.ops
                /\ warnings' = warnings \o g.warn
    /\ pc' = "pending"
    /\ UNCHANGED <<args, input_file_list, output_file_list, renames, removals,
                   paths, cycles, ip, fs, fs0, error, logfile, platform>>

\* Variant: the loop records the error of a failed call and goes on
ExecuteOperation_continue ==
    /\ pc \in {"pending", "running"}
    /\ ip < Len(ops)
    /\ LET op == ops[ip + 1]
           r == IF args.dry_run \/ op.cmd = "cd"
                THEN [err |-> "", fs |-> fs, warn |-> <<>>]
                ELSE apply_op(fs, op)
       IN  /\ logfile' = IF args.verbose THEN Append(logfile, render(op)) ELSE logfile
           /\ fs' = r.fs
           /\ warnings' = warnings \o r.warn
           /\ error' = IF r.err = "" THEN error ELSE <<"OSError", op, r.err>>
           /\ pc' = IF ip + 1 = Len(ops) THEN "done" ELSE "running"
    /\ ip' = ip + 1
    /\ UNCHANGED <<args, input_file_list, output_file_list, renames, removals,
                   paths, cycles, ops, fs0, platform>>

\* Variant: the loop calls the function of the operation also with -d
ExecuteOperation_wet ==
    /\ pc \in {"pending", "running"}
    /\ ip < Len(ops)
    /\ LET op == ops[ip + 1]
           r == IF op.cmd = "cd"
                THEN [err |-> "", fs |-> fs, warn |-> <<>>]
                ELSE apply_op(fs, op)
       IN  /\ logfile' = IF args.verbose THEN Append(logfile, render(op)) ELSE logfile
           /\ fs' = r.fs
           /\ warnings' = warnings \o r.warn
           /\ error' = IF r.err = "" THEN error ELSE <<"OSError", op, r.err>>
           /\ pc' = IF r.err # "" THEN "aborted"
                    ELSE IF ip + 1 = Len(ops) THEN "done" ELSE "running"
    /\ ip' = ip + 1
    /\ UNCHANGED <<args, input_file_list, output_file_list, renames, removals,
                   paths, cycles, ops, fs0, platform>>

\* Variant: the line of an operation is printed after its function returned
ExecuteOperation_log_after ==
    /\ pc \in {"pending", "running"}
    /\ ip < Len(ops)
    /\ LET op == ops[ip + 1]
           r == IF args.dry_run \/ op.cmd = "cd"
                THEN [err |-> "", fs |-> fs, warn |-> <<>>]
                ELSE apply_op(fs, op)
       IN  /\ logfile' = IF args.verbose /\ r.err = ""
                         THEN Append(logfile, render(op)) ELSE logfile
           /\ fs' = r.fs
           /\ warnings' = warnings \o r.warn
           /\ error' = IF r.err = "" THEN error ELSE <<"OSError", op, r.err>>
           /\ pc' = IF r.err # "" THEN "aborted"
                    ELSE IF ip + 1 = Len(ops) THEN "done" ELSE "running"
    /\ ip' = ip + 1
    /\ UNCHANGED <<args, input_file_list, output_file_list, renames, removals,
                   paths, cycles, ops, fs0, platform>>

\* One iteration of the loop of execute_operations
ExecuteOperation ==
    /\ pc \in {"pending", "running"}
    /\ ip < Len(ops)
    /\ LET op == ops[ip + 1]
           r == IF args.dry_run \/ op.cmd = "cd"
                THEN [err |-> "", fs |-> fs, warn |-> <<>>]
                ELSE apply_op(fs, op)
       IN  /\ logfile' = IF args.verbose THEN Append(logfile, render(op)) ELSE logfile
           /\ fs' = r.fs
           /\ warnings' = warnings \o r.warn
           /\ error' = IF r.err = "" THEN error ELSE <<"OSError", op, r.err>>
           /\ pc' = IF r.err # "" THEN "aborted"
                    ELSE IF ip + 1 = Len(ops) THEN "done" ELSE "running"
    /\ ip' = ip + 1
    /\ UNCHANGED <<args, input_file_list, output_file_list, renames, removals,
                   paths, cycles, ops, fs0, platform>>

Next ==
    \/ GetFileLists
    \/ GenerateMapping
    \/ DecomposeMapping
    \/ GenerateOperations
    \/ ExecuteOperation

-----------------------------------------------------------------------------
(* Initial states: the directory, the two lists and the options            *)

File(p) == Node("file", p, <<>>)

Dir(p) == Node("dir", p, <<>>)

Link(p, to) == Node("link", p, to)

\* The tree that holds the given files, directories and links (link -> target)
Tree(files, dirs, links) ==
    [p \in files \cup dirs \cup DOMAIN links |->
        IF p \in files THEN File(p)
        ELSE IF p \in dirs THEN Dir(p)
        ELSE Link(p, links[p])]

Args(recursive, dry, verbose, mangle) ==
    [remove_recursive |-> recursive, dry_run |-> dry, verbose |-> verbose,
     mangle_newlines |-> mangle]

\* The state when dir_edit() is entered
InitWith(tree, before, after, a, plat) ==
    /\ pc = "start"
    /\ args = a
    /\ input_file_list = before
    /\ output_file_list = after
    /\ renames = EmptyMap
    /\ removals = <<>>
    /\ paths = <<>>
    /\ cycles = <<>>
    /\ ops = <<>>
    /\ ip = 0
    /\ fs = tree
    /\ fs0 = tree
    /\ warnings = <<>>
    /\ error = <<>>
    /\ logfile = <<>>
    /\ platform = plat

\* One fixed listing order of a set of paths
AsSeq(S) == CHOOSE q \in Perms(S) : TRUE

Injective(q) == \A i, j \in 1..Len(q) : q[i] = q[j] => i = j

RelList(q) == [i \in 1..Len(q) |-> Rel(q[i])]

\* Names of the entries of a flat directory
FlatNames == {<<"a">>, <<"b">>, <<"c">>, <<"d">>}

\* A flat directory that holds exactly the listed files, renamed within the
\* flat names and one more
InitFlat ==
    \E S \in SUBSET FlatNames :
        /\ Cardinality(S) \in 1..MaxEntries
        /\ \E after \in [1..Cardinality(S) -> FlatNames \cup {<<"e">>}] :
            /\ Injective(after)
            /\ InitWith(Tree(S, {}, EmptyMap), RelList(AsSeq(S)), RelList(after),
                        Args(FALSE, FALSE, TRUE, FALSE), "linux")

\* Directories with more than the listed entries, each with the lines of the
\* after-list tried in it: a directory with an entry beside a file; a file
\* beside a dangling symbolic link, either of which may be removed
Worlds ==
    { [tree |-> Tree({<<"x", "a">>, <<"b">>}, {<<"x">>}, EmptyMap),
       dests |-> {Rel(<<"x">>), Rel(<<"x", "a">>), Rel(<<"x", "c">>),
                  Rel(<<"b">>), Rel(<<"b", "c">>), Rel(<<"y", "a">>),
                  Rel(<<"d">>)}],
      [tree |-> Tree({<<"a">>}, {}, [p \in {<<"l">>} |-> <<"gone">>]),
       dests |-> {Rel(<<"a">>), Rel(<<"l">>), Rel(<<"c">>), Blank}] }

InitTree ==
    \E w \in Worlds :
        \E S \in SUBSET DOMAIN w.tree :
            /\ Cardinality(S) \in 1..MaxEntries
            /\ \E after \in [1..Cardinality(S) -> w.dests] :
                /\ Injective(after)
                /\ InitWith(w.tree, RelList(AsSeq(S)), after,
                            Args(FALSE, FALSE, TRUE, FALSE), "linux")

Init == InitFlat \/ InitTree

\* Runs on lists that pass validation
Spec == Init /\ [][Next]_vars

\* Largest number of lines of a list of the runs on unchecked lists
MaxLines == 2

\* Lines of an unchecked before-list
RawIn ==
    { Rel(<<"a">>), Rel(<<".", "a">>), Rel(<<"b">>), Rel(<<"..">>),
      Rel(<<"..", "q">>), Rel(<<NewlineName>>) }

\* Lines of an unchecked after-list
RawOut ==
    { Rel(<<"a">>), Rel(<<"c", "">>), Rel(<<"c">>), Rel(<<"..">>),
      Abs(<<"t", "q">>), Blank }

Lists(lines, n) == UNION {[1..k -> lines] : k \in 0..n}

InitInput ==
    \E before \in Lists(RawIn, MaxLines), after \in Lists(RawOut, MaxLines) :
        \E mangle \in {FALSE} \cup {\E i \in 1..Len(before) : HasNewline(before[i])} :
            /\ \/ Len(after) \in {Len(before), Len(before) + 1}
               \/ Len(after) + 1 = Len(before)
            /\ InitWith(Tree({<<"a">>, <<"b">>, <<NewlineName>>}, {}, EmptyMap),
                        before, after, Args(FALSE, FALSE, TRUE, mangle), "linux")

\* Runs on unchecked lists
SpecInput == InitInput /\ [][Next]_vars

-----------------------------------------------------------------------------
(* Vocabulary of the properties                                            *)

\* The normalised source and destination of line i
Src(i) == relpath(input_file_list[i])

Dst(i) == relpath(output_file_list[i])

Lines == 1..Len(input_file_list)

Srcs == {Src(i) : i \in Lines}

Ended == pc \in {"done", "aborted", "error"}

Planned == pc \in {"pending", "running", "done", "aborted"}

\* Equal lengths, no blank line, sources inside the directory and existing,
\* sources pairwise distinct, destinations pairwise distinct, no self-map
ValidLists ==
    /\ Len(input_file_list) = Len(output_file_list)
    /\ input_file_list # <<>>
    /\ \A i \in Lines :
        /\ input_file_list[i] # Blank
        /\ output_file_list[i] # Blank
        /\ Src(i)[1] \notin {".", ".."}
        /\ Dst(i)[1] \notin {".", ".."}
        /\ Phys(fs0, Src(i)) \in DOMAIN fs0
        /\ Src(i) # Dst(i)
    /\ \A i, j \in Lines : i # j => Src(i) # Src(j) /\ Dst(i) # Dst(j)

SingleNames == \A i \in Lines : Len(Src(i)) = 1 /\ Len(Dst(i)) = 1

ExactDir == DOMAIN fs0 = Srcs

\* Every destination is absent from the directory or is itself a source, and
\* so is every ancestor of a destination that is not a directory
FreeDests ==
    \A i \in Lines :
        /\ ~lexists(fs0, Dst(i)) \/ Dst(i) \in Srcs
        /\ \A d \in dirnames(Dst(i)) :
                isdir(fs0, d) \/ ~lexists(fs0, d) \/ d \in Srcs

\* The entry at path p of the tree is the given one
Holds(tree, p, node) ==
    /\ Phys(tree, p) \in DOMAIN tree
    /\ tree[Phys(tree, p)] = node

\* Every after[i] holds what before[i] held, and no before[i] remains unless
\* it is also some after[j]
EndState ==
    /\ \A i \in Lines : Holds(fs, Dst(i), fs0[Phys(fs0, Src(i))])
    /\ \A i \in Lines : lexists(fs, Src(i)) => \E j \in Lines : Dst(j) = Src(i)

Realised == pc \notin {"aborted", "error"} /\ (pc = "done" => EndState)

-----------------------------------------------------------------------------
(* C1: on a flat directory that holds exactly the sources, a valid mapping  *)
(* between single names ends Completed with every after[i] holding the     *)
(* content of before[i] and no before[i] left unless it is some after[j].  *)

C1_FlatEndState == (ValidLists /\ SingleNames /\ ExactDir) => Realised

\* A completed run of a swap beside a chain
C1_Witness ==
    /\ ValidLists /\ SingleNames /\ ExactDir
    /\ pc = "done"
    /\ cycles # <<>>
    /\ paths # <<>>

(* C2: the same end state for paths with directory components, whenever     *)
(* every destination is absent or is itself a source.                      *)

C2_TreeEndState == (ValidLists /\ FreeDests) => Realised

(* C3 as stated: for any permutation of n >= 2 existing paths without fixed  *)
(* points the plan creates the staging directory once and removes it once, *)
(* and after the run each path holds what the source mapped to it held.    *)

\* The destinations are the sources, permuted
Permutation == ValidLists /\ {Dst(i) : i \in Lines} = Srcs

Count(op) == Cardinality({k \in 1..Len(ops) : ops[k] = op})

StagedOnce ==
    /\ Count(Op("mkdir", <<<<TmpName>>>>)) = 1
    /\ Count(Op("rmdir", <<<<TmpName>>>>)) = 1

Permuted ==
    /\ Planned => StagedOnce
    /\ pc # "aborted"
    /\ pc = "done" =>
        /\ \A i \in Lines : Holds(fs, Dst(i), fs0[Phys(fs0, Src(i))])
        /\ ~lexists(fs, <<TmpName>>)

Independent ==
    \A i, j \in Lines :
        i # j => ~IsPrefix(Phys(fs0, Src(i)), Phys(fs0, Src(j)))

MovesAway(k, p) == ops[k].cmd = "mv -n" /\ ops[k].args[1] = p

MovesOnto(k, p) == ops[k].cmd = "mv -n" /\ ops[k].args[2] = p

Inner(c) == {c[i] : i \in 2..(Len(c) - 1)}

TailFirst(p) ==
    /\ \E k \in 1..Len(ops) : MovesAway(k, p)
    /\ \E m \in 1..Len(ops) : MovesOnto(m, p)
    /\ \A k, m \in 1..Len(ops) : MovesAway(k, p) /\ MovesOnto(m, p) => k < m

VacatedInTime(p) ==
    (pc \in {"pending", "running"} /\ ip < Len(ops) /\ MovesOnto(ip + 1, p)) =>
        /\ \E k \in 1..ip : MovesAway(k, p)
        /\ (warnings = <<>> /\ \A k \in 1..ip : ops[k].cmd # "mkdir -p")
                => ~lexists(fs, p)

\* C4: every inner path of a chain is moved away before it is moved onto
C4_TailToHead ==
    Planned => \A c \in Range(paths) : \A p \in Inner(c) :
                    TailFirst(p) /\ VacatedInTime(p)

\* The rename onto the middle of a chain of three edges is about to run
C4_Witness ==
    /\ pc = "running"
    /\ \E c \in Range(paths) :
        /\ Len(c) = 4
        /\ MovesOnto(ip + 1, c[2])
        /\ ~lexists(fs, c[2])

(* C5 as stated: when nothing is to be removed, in every state of the run    *)
(* every entry that existed before the run still exists, with its content, *)
(* at some path; and no step replaces an existing entry.                   *)

\* The entry is still somewhere in the directory
Kept(node) == \E q \in DOMAIN fs : fs[q] = node

\* No path that exists before and after a step changes its entry
NoReplace == \A q \in DOMAIN fs \cap DOMAIN fs' : fs'[q] = fs[q]

\* C5 as stated: every entry is kept and no step replaces an entry
C5_EveryEntryKept ==
    /\ [](removals = <<>> => \A p \in DOMAIN fs0 : Kept(fs0[p]))
    /\ [][NoReplace]_vars

(* C5 amended: the same for every file and symbolic link; a directory that   *)
(* existed before the run disappears only by the rmdir of the plan, once   *)
(* it is empty.                                                            *)

OnlyEmptiedDirs ==
    \A q \in DOMAIN fs :
        (fs[q].kind = "dir" /\ fs[q].id # NewId
            /\ ~(\E r \in DOMAIN fs' : fs'[r] = fs[q]))
        => /\ Children(fs, q) = {}
           /\ ops[ip + 1].cmd = "rmdir"
           /\ Phys(fs, ops[ip + 1].args[1]) = q

\* C5 amended: every file and link is kept, no step replaces an entry, a
\* directory disappears only by the rmdir of the plan once it is empty
C5_NoDataDestroyed ==
    /\ [](removals = <<>> =>
            \A p \in DOMAIN fs0 : fs0[p].kind # "dir" => Kept(fs0[p]))
    /\ [][removals = <<>> => NoReplace /\ OnlyEmptiedDirs]_vars

\* An aborted run that has left an entry in the staging directory and has
\* skipped no rename
C5_Witness ==
    /\ removals = <<>>
    /\ pc = "aborted"
    /\ \E p \in DOMAIN fs0 : \E q \in DOMAIN fs :
            fs[q] = fs0[p] /\ q[1] = TmpName

(* C6: when a rename is executed and its destination exists at that moment  *)
(* (a file, a directory or a symbolic link, dangling or not, the link not  *)
(* followed) the directory is left as it is, a warning is recorded, no     *)
(* error is raised and the run goes on to the next operation of the plan.  *)

\* The next operation is a rename onto an existing location
RenameOntoExisting ==
    /\ pc \in {"pending", "running"}
    /\ ip < Len(ops)
    /\ ops[ip + 1].cmd = "mv -n"
    /\ LET d == Phys(fs, ops[ip + 1].args[2])
       IN  d \in DOMAIN fs \/ Special(d)

\* C6: a rename onto an existing location is skipped with a warning and the
\* run goes on
C6_NonClobber ==
    [][RenameOntoExisting =>
        /\ fs' = fs
        /\ error' = error
        /\ warnings' = Append(warnings, <<"exists", ops[ip + 1].args[2]>>)
        /\ ip' = ip + 1
        /\ pc' = IF ip' = Len(ops) THEN "done" ELSE "running"]_vars

\* A rename onto a dangling symbolic link has been skipped and the run has
\* gone on to its end
C6_Witness ==
    /\ pc = "done"
    /\ <<"exists", <<"l">>>> \in Range(warnings)
    /\ islink(fs, <<"l">>) /\ ~exists(fs, <<"l">>)
    /\ Holds(fs, <<"a">>, fs0[<<"a">>])

-----------------------------------------------------------------------------
(* Properties of the validation of the lists                               *)

\* The line names a location that is not inside the working directory
OutsideLine(raw) == raw # Blank /\ relpath(raw)[1] = ".."

\* Nothing of a plan has been executed
Untouched == fs = fs0 /\ ip = 0 /\ ops = <<>> /\ logfile = <<>>

\* The errors raised by generate_mapping
MappingErrors ==
    {"leads outside given directory", "duplicate input entries",
     "duplicate target entries", "no path specified"}

\* get_file_lists has accepted the lists and generate_mapping has run
Mapped ==
    /\ pc \notin {"start", "lists"}
    /\ pc = "error" => error[1] \in MappingErrors

Failed(kind) == pc = "error" /\ error[1] = kind

(* C7: every validation error is raised before the first operation of a     *)
(* plan is executed: a run that has ended with one has executed nothing and *)
(* has left the directory as it was, a run that executes a plan raises     *)
(* none, and lists of unequal lengths, an empty before-list or a name with *)
(* a newline (without mangling) stop the run before the mapping is built.  *)

RejectedLists ==
    \/ Len(input_file_list) # Len(output_file_list)
    \/ input_file_list = <<>>
    \/ /\ ~args.mangle_newlines
       /\ \E i \in Lines : HasNewline(input_file_list[i])

\* C7: a validation error leaves nothing executed; a plan raises none;
\* rejected lists never reach the mapping
C7_ValidationFirst ==
    /\ pc = "error" => Untouched
    /\ Planned => (error = <<>> \/ error[1] = "OSError")
    /\ RejectedLists => (pc \in {"start", "error"} /\ Untouched)

\* A run stopped by lists of unequal lengths, the directory as it was
C7_Witness ==
    /\ Failed("new file list has different length than old")
    /\ input_file_list # <<>>
    /\ fs = fs0

(* C8 as stated: generate_mapping fails with the duplicate-destination error *)
(* whenever two distinct sources have non-blank destinations with the same *)
(* normal form, and never returns a mapping in which two sources share a   *)
(* destination.                                                            *)

SharedDst(i, j) ==
    /\ i < j
    /\ Src(i) # Src(j)
    /\ output_file_list[i] # Blank
    /\ output_file_list[j] # Blank
    /\ Dst(i) = Dst(j)

InjectiveMapping ==
    \A s, t \in DOMAIN renames : s # t => renames[s] # renames[t]

\* C8 as stated: a shared destination always raises the
\* duplicate-destination error; the mapping is injective
C8_AnySharedDestination ==
    Mapped =>
        /\ (\E i, j \in Lines : SharedDst(i, j)) => Failed("duplicate target entries")
        /\ InjectiveMapping

(* C8 amended: generate_mapping fails whenever two distinct sources have     *)
(* non-blank destinations with the same normal form, and with the          *)
(* duplicate-destination error unless the lists have, up to the second of  *)
(* the two entries, a path outside the directory or a duplicate source,    *)
(* whose error is raised first; it never returns a mapping in which two    *)
(* sources share a destination.                                            *)

\* Line j is the first to repeat the destination of another source
FirstShared(j) ==
    /\ \E i \in Lines : SharedDst(i, j)
    /\ \A k \in 1..(j - 1) : ~(\E i \in Lines : SharedDst(i, k))

\* No path of the lines 1..j is outside the directory, no source is repeated
NoOtherErrorUpTo(j) ==
    \A k \in 1..j :
        /\ ~OutsideLine(input_file_list[k])
        /\ ~OutsideLine(output_file_list[k])
        /\ \A i \in 1..(k - 1) : Src(i) # Src(k)

\* C8 amended: a shared destination always fails, with the
\* duplicate-destination error when no other error comes first; the mapping
\* is injective
C8_SharedDestination ==
    Mapped =>
        /\ (\E i, j \in Lines : SharedDst(i, j)) => pc = "error"
        /\ \A j \in Lines : (FirstShared(j) /\ NoOtherErrorUpTo(j))
                => Failed("duplicate target entries")
        /\ InjectiveMapping

\* The error for a self-map a1 -> a1 together with a2 -> a1
C8_Witness ==
    /\ Failed("duplicate target entries")
    /\ \E i, j \in Lines : SharedDst(i, j) /\ Src(i) = Dst(i)

(* C9 as stated: generate_mapping fails with the duplicate-source error      *)
(* whenever two entries of the before-list have the same normal form,      *)
(* whatever their destinations; no source is twice in the mapping and the  *)
(* removals.                                                               *)

SameSrc(i, j) == i < j /\ Src(i) = Src(j)

NoKeyTwice ==
    /\ \A i, j \in 1..Len(removals) : removals[i] = removals[j] => i = j
    /\ Range(removals) \cap DOMAIN renames = {}
    /\ pc # "error" => \A i, j \in Lines : ~SameSrc(i, j)

\* C9 as stated: a repeated source always raises the duplicate-source error;
\* no source is twice in the mapping and the removals
C9_AnyRepeatedSource ==
    Mapped =>
        /\ (\E i, j \in Lines : SameSrc(i, j)) => Failed("duplicate input entries")
        /\ NoKeyTwice

(* C9 amended: generate_mapping fails whenever two entries of the            *)
(* before-list have the same normal form, whatever their destinations, and *)
(* with the duplicate-source error unless the lists have, before the       *)
(* second of the two entries, a path outside the directory or a duplicate  *)
(* destination, whose error is raised first; no source is twice in the     *)
(* mapping and the removals.                                               *)

\* Line j is the first to repeat a source
FirstSame(j) ==
    /\ \E i \in Lines : SameSrc(i, j)
    /\ \A k \in 1..(j - 1) : ~(\E i \in Lines : SameSrc(i, k))

\* The source of line j and the paths of the lines before it are inside the
\* directory, and no destination is repeated before line j
NoOtherErrorBefore(j) ==
    /\ ~OutsideLine(input_file_list[j])
    /\ \A k \in 1..(j - 1) :
        /\ ~OutsideLine(input_file_list[k])
        /\ ~OutsideLine(output_file_list[k])
        /\ \A i \in 1..(k - 1) :
                (output_file_list[i] # Blank /\ output_file_list[k] # Blank)
                    => Dst(i) # Dst(k)

\* C9 amended: a repeated source always fails, with the duplicate-source
\* error when no other error comes first; no source is twice in the mapping
\* and the removals
C9_RepeatedSource ==
    Mapped =>
        /\ (\E i, j \in Lines : SameSrc(i, j)) => pc = "error"
        /\ \A j \in Lines : (FirstSame(j) /\ NoOtherErrorBefore(j))
                => Failed("duplicate input entries")
        /\ NoKeyTwice

\* The error for a source listed twice, once to be removed
C9_Witness ==
    /\ Failed("duplicate input entries")
    /\ \E i, j \in Lines : SameSrc(i, j) /\ Blank \in {output_file_list[i], output_file_list[j]}

(* C10: every before[i] and every non-blank after[i] whose normal form       *)
(* begins with a parent-directory component makes generate_mapping fail,   *)
(* and no path that is not inside the working directory becomes a source   *)
(* or a destination of the mapping or an entry of the removals.            *)

C10_OutsideRejected ==
    Mapped =>
        /\ (\E k \in Lines : \/ OutsideLine(input_file_list[k])
                             \/ OutsideLine(output_file_list[k]))
                => pc = "error"
        /\ \A s \in DOMAIN renames : s[1] # ".." /\ renames[s][1] # ".."
        /\ \A k \in 1..Len(removals) : removals[k][1] # ".."

-----------------------------------------------------------------------------
(* C11 as stated: lists of different lengths make the run fail with the     *)
(* length-mismatch error, before any other validation is reported and      *)
(* before any operation is planned or executed.                            *)

UnequalLengths == Len(input_file_list) # Len(output_file_list)

LengthMismatch == Failed("new file list has different length than old")

\* C11 as stated: unequal lengths always end in the length-mismatch error
C11_AnyLengthMismatch ==
    (UnequalLengths /\ pc # "start") => (LengthMismatch /\ Untouched)

(* C11 amended: the same, for a before-list that passes its own checks      *)
(* (every path exists, the list is not empty, no name holds a newline      *)
(* unless newlines are mangled), which are made before the lengths are     *)
(* compared.                                                               *)

InputListAccepted ==
    input_error(fs0, input_file_list, args.mangle_newlines) = <<>>

\* C11 amended: unequal lengths and an accepted before-list end in the
\* length-mismatch error, nothing mapped, planned or executed
C11_LengthMismatch ==
    (UnequalLengths /\ InputListAccepted /\ pc # "start") =>
        /\ LengthMismatch
        /\ Untouched
        /\ renames = EmptyMap /\ removals = <<>>

\* The length-mismatch error for lists that also hold a path outside the
\* directory and a repeated source
C11_Witness ==
    /\ LengthMismatch
    /\ \E i \in Lines : OutsideLine(input_file_list[i])
    /\ \E i, j \in Lines : SameSrc(i, j)

-----------------------------------------------------------------------------
(* C12: an entry whose before and after lines have the same normal form is  *)
(* not inserted into the mapping and generates no operation, and for lists *)
(* that pass validation the plans with such entries are the plans of the   *)
(* lists without them.                                                     *)

\* The plans dir_edit() can produce for the lists in the given directory
Plans(ins, outs, tree, recursive) ==
    LET m == generate_mapping(ins, outs)
    IN  UNION { UNION { { generate_operations(d.paths, d.cycles, m.removals, tree,
                                              recursive, created, cleaned).ops :
                            cleaned \in sorted_by_len_reverse(
                                            src_dirs(d.paths) \ dst_dirs(d.paths)) } :
                        created \in sorted_by_len(
                                        dst_dirs(d.paths) \ src_dirs(d.paths)) } :
                d \in decompose_mapping(m.renames) }

SelfMap(i) == output_file_list[i] # Blank /\ Src(i) = Dst(i)

\* The lines that are not self-maps, in order
OtherLines ==
    SelectSeq([i \in Lines |-> i], LAMBDA i : ~SelfMap(i))

WithoutSelfMaps(list) == [k \in 1..Len(OtherLines) |-> list[OtherLines[k]]]

\* C12: self-maps are neither mapped nor planned, and do not change the plans
C12_SelfMapFiltered ==
    (Mapped /\ pc # "error") =>
        /\ \A i \in Lines : SelfMap(i) =>
                /\ Src(i) \notin DOMAIN renames
                /\ \A k \in 1..Len(ops) : ~MovesAway(k, Src(i))
        /\ generate_mapping(WithoutSelfMaps(input_file_list),
                            WithoutSelfMaps(output_file_list)).err = <<>>
        /\ Plans(input_file_list, output_file_list, fs0, args.remove_recursive)
            = Plans(WithoutSelfMaps(input_file_list),
                    WithoutSelfMaps(output_file_list), fs0, args.remove_recursive)
        /\ Planned =>
                ops \in Plans(WithoutSelfMaps(input_file_list),
                              WithoutSelfMaps(output_file_list), fs0,
                              args.remove_recursive)

\* A plan with a rename, for lists with a self-map written in two ways
C12_Witness ==
    /\ Planned
    /\ \E i \in Lines : SelfMap(i) /\ input_file_list[i] # output_file_list[i]
    /\ \E k \in 1..Len(ops) : ops[k].cmd = "mv -n"

-----------------------------------------------------------------------------
(* Runs with removals and options                                          *)

\* A directory with a file, an empty directory, a directory with an entry and
\* a symbolic link to that directory
OptionsTree ==
    Tree({<<"a">>, <<"n", "f">>}, {<<"e">>, <<"n">>},
         [p \in {<<"l">>} |-> <<"n">>])

\* Lines of the after-list: the blank line removes
OptionsLines ==
    {Blank, Rel(<<"a">>), Rel(<<"e">>), Rel(<<"c">>), Rel(<<"n", "g">>)}

\* No two lines name the same destination
DistinctUnlessBlank(q) ==
    \A i, j \in 1..Len(q) : (q[i] = q[j] /\ i # j) => q[i] = Blank

InitOptions ==
    \E S \in SUBSET DOMAIN OptionsTree :
        /\ Cardinality(S) \in 1..MaxEntries
        /\ \E after \in [1..Cardinality(S) -> OptionsLines] :
            /\ DistinctUnlessBlank(after)
            /\ \E recursive \in BOOLEAN, dry \in BOOLEAN, verbose \in BOOLEAN :
                /\ dry \/ verbose
                /\ InitWith(OptionsTree, RelList(AsSeq(S)), after,
                         Args(recursive, dry, verbose, FALSE), "linux")

\* Runs with removals, with and without -R and -d, the dry runs with and
\* without -v
SpecOptions == InitOptions /\ [][Next]_vars

-----------------------------------------------------------------------------
(* C13: every entry with a blank after-line goes to the removals and not    *)
(* into the mapping, and the plan holds exactly one removal decision per   *)
(* entry of the removals, by the type of the entry at planning time: rm    *)
(* for a file, a symbolic link or a missing path; rmdir for an empty       *)
(* directory; rm -r for a directory with entries only with -R, and         *)
(* otherwise no operation but a warning.                                   *)


\* The type of the entry a path names before the run
Entry(p) ==
    IF Phys(fs0, p) \in DOMAIN fs0 THEN fs0[Phys(fs0, p)].kind ELSE "missing"

NonEmptyDir(p) == Entry(p) = "dir" /\ Children(fs0, Phys(fs0, p)) # {}

\* The operations that remove the entry: one, or none for a directory with
\* entries without -R
Decision(p) ==
    IF Entry(p) # "dir" THEN <<Op("rm", <<p>>)>>
    ELSE IF ~NonEmptyDir(p) THEN <<Op("rmdir", <<p>>)>>
    ELSE IF args.remove_recursive THEN <<Op("rm -r", <<p>>)>>
    ELSE <<>>

Decisions == Flatten([k \in 1..Len(removals) |-> Decision(removals[k])])

\* The lines with a blank after-line, in order
BlankLines ==
    SelectSeq([i \in Lines |-> i], LAMBDA i : output_file_list[i] = Blank)

\* C13: blank lines go to the removals only, and the plan holds the decisions
\* for them, one per entry
C13_RemovalDecisions ==
    (Mapped /\ pc # "error") =>
        /\ removals = [k \in 1..Len(BlankLines) |-> Src(BlankLines[k])]
        /\ Range(removals) \cap DOMAIN renames = {}
        /\ Planned =>
            /\ Len(ops) >= 1 + Len(Decisions)
            /\ SubSeq(ops, 2, 1 + Len(Decisions)) = Decisions
            /\ \A k \in (2 + Len(Decisions))..Len(ops) : ops[k].cmd \notin {"rm", "rm -r"}
            /\ {w \in Range(warnings) : w[1] = "not empty"}
                = {<<"not empty", p>> : p \in {p \in Range(removals) :
                        NonEmptyDir(p) /\ ~args.remove_recursive}}

\* A plan for the removal of a file, of a link to a directory and of a
\* directory with entries under -R
C13_Witness ==
    /\ Planned
    /\ Len(removals) = 3
    /\ Len(ops) >= 4
    /\ {ops[2].cmd, ops[3].cmd, ops[4].cmd} = {"rm", "rm -r"}
    /\ \E k \in 2..4 : ops[k] = Op("rm", <<<<"l">>>>)


-----------------------------------------------------------------------------
(* C14 as stated: the removal of a directory with entries without -R is not *)
(* fatal: the directory and everything under it are left intact, a warning *)
(* is recorded, every other removal and rename is carried out as without   *)
(* that line, and the run ends Completed.                                  *)

\* The removals that are skipped: directories with entries, without -R
SkippedDirs ==
    IF args.remove_recursive THEN {} ELSE {p \in Range(removals) : NonEmptyDir(p)}

\* The directory and everything under it are where and what they were
Intact(p) ==
    \A q \in DOMAIN fs0 :
        IsPrefix(Phys(fs0, p), q) => (q \in DOMAIN fs /\ fs[q] = fs0[q])

\* The lines other than the skipped removals, in order
CarriedLines ==
    SelectSeq([i \in Lines |-> i],
              LAMBDA i : ~(output_file_list[i] = Blank /\ Src(i) \in SkippedDirs))

WithoutSkipped(list) == [k \in 1..Len(CarriedLines) |-> list[CarriedLines[k]]]

\* The plan is a plan of the lists without the skipped removals; with nothing
\* to rename the run does not abort
RestCarriedOut ==
    /\ ops \in Plans(WithoutSkipped(input_file_list),
                     WithoutSkipped(output_file_list), fs0, args.remove_recursive)
    /\ renames = EmptyMap => pc # "aborted"
    /\ (renames = EmptyMap /\ pc = "done" /\ ~args.dry_run) =>
            \A p \in Range(removals) \ SkippedDirs : ~lexists(fs, p)

Unrelated(p) ==
    \A i \in Lines :
        Src(i) # p => ~IsPrefix(Phys(fs0, p), Phys(fs0, Src(i)))

-----------------------------------------------------------------------------
(* C15: in every plan the removal operations come before every mkdir -p and *)
(* every rename, in the order of the removals, so that a path marked for   *)
(* removal can be the destination of a rename of the same batch: the path  *)
(* is removed first and then holds what is renamed onto it.                *)

\* Operation k removes an entry of the removals
RemovalOp(k) ==
    \/ ops[k].cmd \in {"rm", "rm -r"}
    \/ /\ ops[k].cmd = "rmdir"
       /\ ops[k].args[1] \in Range(removals)
       /\ ~NonEmptyDir(ops[k].args[1])

\* The place of a path in the removals
RemovalIndex(p) == CHOOSE n \in 1..Len(removals) : removals[n] = p

RemovalsFirst ==
    /\ \A p \in Range(removals) \ SkippedDirs :
            \E k \in 1..Len(ops) : RemovalOp(k) /\ ops[k].args[1] = p
    /\ \A k, m \in 1..Len(ops) :
        /\ (RemovalOp(k) /\ ops[m].cmd \in {"mkdir -p", "mkdir", "mv -n"}) => k < m
        /\ (RemovalOp(k) /\ RemovalOp(m) /\ k < m)
                => RemovalIndex(ops[k].args[1]) < RemovalIndex(ops[m].args[1])

\* Line j renames onto the path that line i removes
OntoRemoved(i, j) ==
    /\ output_file_list[i] = Blank
    /\ output_file_list[j] # Blank
    /\ Dst(j) = Src(i)
    /\ Src(i) \notin SkippedDirs

\* C15: removals first and in order; a removed path holds what is renamed
\* onto it, and the source of that rename is gone unless it is a destination
C15_RemovalsFirst ==
    Planned =>
        /\ RemovalsFirst
        /\ (pc = "done" /\ ~args.dry_run) =>
            \A i, j \in Lines : OntoRemoved(i, j) =>
                /\ Holds(fs, Dst(j), fs0[Phys(fs0, Src(j))])
                /\ \/ ~lexists(fs, Src(j))
                   \/ \E k \in Lines : output_file_list[k] # Blank /\ Dst(k) = Src(j)

\* A file has been removed and a file of a cleaned directory renamed onto
\* its path
C15_Witness ==
    /\ pc = "done" /\ ~args.dry_run
    /\ \E i, j \in Lines : OntoRemoved(i, j) /\ Entry(Src(i)) = "file"
    /\ \E k \in 1..Len(ops) : ops[k].cmd = "mkdir -p" \/ ops[k].cmd = "rmdir"


-----------------------------------------------------------------------------
(* C16: for every chain edge whose destination lies inside its source the   *)
(* plan holds, in this order, the rename of the source into the staging    *)
(* directory, mkdir -p of the parent of the destination and the rename     *)
(* from the staging directory to the destination; after execution the      *)
(* destination holds what the source held and the source is a directory on *)
(* the path to the destination.                                            *)

\* The edges src -> dst of the chains with dst inside src
NestedEdges ==
    UNION { { [src |-> c[i], dst |-> c[i + 1]] :
                i \in {i \in 1..(Len(c) - 1) : IsBelow(c[i + 1], c[i])} } :
            c \in Range(paths) }

Staged(e) == <<TmpName, Last(e.src)>>

\* The three operations of the nested move e are at k, k + 1 and k + 2
NestedAt(e, k) ==
    /\ k + 2 <= Len(ops)
    /\ ops[k] = Op("mv -n", <<e.src, Staged(e)>>)
    /\ ops[k + 1] = Op("mkdir -p", <<Front(e.dst)>>)
    /\ ops[k + 2] = Op("mv -n", <<Staged(e), e.dst>>)

Moved_in(e) ==
    /\ Holds(fs, e.dst, fs0[Phys(fs0, e.src)])
    /\ isdir(fs, e.src)
    /\ IsPrefix(Phys(fs, e.src), Phys(fs, e.dst))

\* C16: the three operations of every nested move, in order; their effect
\* once they have been executed and at the end of a completed run
C16_NestedMove ==
    Planned => \A e \in NestedEdges :
        /\ \E k \in 1..Len(ops) : NestedAt(e, k)
        /\ \A k \in 1..Len(ops) :
                (NestedAt(e, k) /\ ip = k + 2 /\ pc # "aborted" /\ ~args.dry_run)
                    => Moved_in(e)
        /\ (pc = "done" /\ ~args.dry_run) => Moved_in(e)

\* A completed run that has moved a directory into itself
C16_Witness ==
    /\ pc = "done"
    /\ \E e \in NestedEdges : Entry(e.src) = "dir" /\ Moved_in(e)


-----------------------------------------------------------------------------
(* C17: when an operation of the plan fails with an OS error no later       *)
(* operation is executed, what the earlier operations did stays, and the   *)
(* run ends with an error that names the failed operation and the OS       *)
(* error; if the first operation with an effect fails the directory is     *)
(* unchanged.                                                              *)

\* The next operation is executed and fails
NextFails ==
    /\ pc \in {"pending", "running"}
    /\ ip < Len(ops)
    /\ ~args.dry_run
    /\ ops[ip + 1].cmd # "cd"
    /\ apply_op(fs, ops[ip + 1]).err # ""

\* The failing step ends the run, with the directory as the earlier
\* operations left it
AbortsThere ==
    /\ pc' = "aborted"
    /\ fs' = fs
    /\ ip' = ip + 1
    /\ error' = <<"OSError", ops[ip + 1], apply_op(fs, ops[ip + 1]).err>>

\* C17: a failing operation aborts the run where it is, nothing follows an
\* abort, and an abort at the first operation with an effect leaves the
\* directory unchanged
C17_ExecutorAbort ==
    /\ [][NextFails => AbortsThere]_vars
    /\ [][pc = "aborted" => UNCHANGED vars]_vars
    /\ []((pc = "aborted" /\ \A k \in 1..(ip - 1) : ops[k].cmd = "cd") => fs = fs0)
    /\ [](pc = "aborted" => (error[1] = "OSError" /\ error[2] = ops[ip]))

\* An aborted run with the effect of an earlier operation in place and
\* operations left unexecuted
C17_Witness ==
    /\ pc = "aborted"
    /\ fs # fs0
    /\ ip < Len(ops)


-----------------------------------------------------------------------------
(* C18: with -d the directory after the run is the directory before it:     *)
(* neither planning nor execution changes it, while the full plan is       *)
(* produced and, with -v, logged.                                          *)

\* The lines that -v prints for the operations 1..n of the plan
Logged(n) == [k \in 1..n |-> render(ops[k])]

\* C18: planning changes nothing; a dry run changes nothing, does not
\* abort, and goes through the whole plan, logging it with -v
C18_DryRun ==
    /\ pc \in {"start", "lists", "mapped", "decomposed", "pending", "error"}
            => fs = fs0
    /\ args.dry_run =>
        /\ fs = fs0
        /\ pc # "aborted"
        /\ Planned =>
            /\ ops \in Plans(input_file_list, output_file_list, fs0,
                             args.remove_recursive)
            /\ logfile = IF args.verbose THEN Logged(ip) ELSE <<>>
            /\ pc = "done" <=> ip = Len(ops)

\* The end of a dry run with -v whose plan removes, creates and renames
C18_Witness ==
    /\ args.dry_run /\ args.verbose
    /\ pc = "done"
    /\ {"rm", "mkdir -p", "mv -n"} \subseteq {ops[k].cmd : k \in 1..Len(ops)}
    /\ Len(logfile) = Len(ops)


-----------------------------------------------------------------------------
(* The log of a verbose dry run, run by a shell                            *)
(* (DirEditDryRunVerboseTestCase.call_dir_edit)                            *)

\* mv -n SRC DST: an existing directory at DST (a symbolic link followed)
\* receives SRC under its own name; nothing is overwritten
sh_mv_n(tree, src, dst) ==
    LET s == Phys(tree, src)
        into == realdir(tree, dst)
        target == Append(into, Last(s))
    IN  IF s = NoPath \/ Special(s) \/ s \notin DOMAIN tree THEN tree
        ELSE IF into = Outside THEN tree
        ELSE IF into # NoPath
        THEN IF target \in DOMAIN tree \/ IsPrefix(s, target) THEN tree
             ELSE Moved(tree, s, target)
        ELSE IF lexists(tree, dst) THEN tree
        ELSE os_rename(tree, src, dst).fs

\* rm -r PATH: the entry and everything below it; a symbolic link is
\* removed itself; '.' and '..' are refused
sh_rm_r(tree, p) ==
    LET q == Phys(tree, p)
    IN  IF q = NoPath \/ Special(q) \/ q \notin DOMAIN tree THEN tree
        ELSE Without(tree, q)

\* One line of the log run by the shell: the tree after it (a failing
\* command leaves the tree as it is)
sh_line(tree, line) ==
    CASE line.cmd = "rmdir" -> os_rmdir(tree, line.args[1]).fs
      [] line.cmd = "mkdir -p" -> makedirs_exist_ok(tree, line.args[1]).fs
      [] line.cmd = "mkdir" -> os_mkdir(tree, line.args[1]).fs
      [] line.cmd = "rm" -> os_remove(tree, line.args[1]).fs
      [] line.cmd = "rm -r" -> sh_rm_r(tree, line.args[1])
      [] line.cmd = "mv -n" -> sh_mv_n(tree, line.args[1], line.args[2])
      [] OTHER -> tree

\* The lines run in order; the shell goes on after a failing command
RECURSIVE sh_replay(_, _)
sh_replay(tree, lines) ==
    IF lines = <<>> THEN tree
    ELSE sh_replay(sh_line(tree, Head(lines)), Tail(lines))

\* The run is over: every operation executed, or stopped at a failing one
Finished == pc \in {"done", "aborted"}

\* C19: a finished run without -d leaves the directory in the state in which
\* the shell leaves the initial directory after running, in order, the lines
\* that a verbose dry run of the same plan logs.
C19_ReplayEquivalence ==
    (Finished /\ ~args.dry_run) => fs = sh_replay(fs0, Logged(Len(ops)))


-----------------------------------------------------------------------------
(* A whole run as a function of the directory and the lists, and the run   *)
(* of the inverse mapping after it                                         *)

\* execute_operations without -d: the tree when the loop ends, at the end of
\* the plan or at the first failing call
RECURSIVE execute_operations(_, _)
execute_operations(tree, plan) ==
    IF plan = <<>> THEN tree
    ELSE LET r == apply_op(tree, Head(plan))
         IN  IF r.err # "" THEN r.fs ELSE execute_operations(r.fs, Tail(plan))

\* dir_edit(): the trees a run on the given directory and lists can end with
\* (one for each order the plan may take)
dir_edit(tree, ins, outs, a) ==
    IF get_file_lists_error(tree, ins, outs, a.mangle_newlines) # <<>> THEN {tree}
    ELSE IF generate_mapping(ins, outs).err # <<>> THEN {tree}
    ELSE IF a.dry_run THEN {tree}
    ELSE {execute_operations(tree, plan) :
            plan \in Plans(ins, outs, tree, a.remove_recursive)}

\* What a listing of the directory shows: every path with its kind, and the
\* content of what is not a directory
Listing(tree) ==
    [p \in DOMAIN tree |-> IF tree[p].kind = "dir" THEN "dir" ELSE tree[p]]

\* The steps of a run end with a tree that dir_edit() gives
RunIsDirEdit ==
    Finished => fs \in dir_edit(fs0, input_file_list, output_file_list, args)

\* C20: after a finished run on a valid mapping whose destinations are absent
\* or themselves sources, a run with the two lists swapped ends with the
\* listing and contents the directory had before the first run.
C20_RoundTrip ==
    (ValidLists /\ FreeDests /\ Finished /\ ~args.dry_run) =>
        \A back \in dir_edit(fs, output_file_list, input_file_list, args) :
            Listing(back) = Listing(fs0)


-----------------------------------------------------------------------------
(* Runs on a directory with nested directories: files moved out of, into   *)
(* and within them (test_recursive_cleanup, test_recursive_cleanup_stop,   *)
(* test_recursive_cleanup_multiple, test_recursive_mkdir)                  *)

DirsTree ==
    Tree({<<"x", "y", "a">>, <<"x", "y", "b">>, <<"x", "c">>},
         {<<"x">>, <<"x", "y">>}, EmptyMap)

DirsDests ==
    {<<"a">>, <<"b">>, <<"x", "y", "b">>, <<"x", "y", "c">>, <<"z", "w", "a">>}

InitDirs ==
    \E S \in SUBSET DOMAIN DirsTree :
        /\ Cardinality(S) \in 1..MaxEntries
        /\ \E after \in [1..Cardinality(S) -> DirsDests] :
            /\ Injective(after)
            /\ InitWith(DirsTree, RelList(AsSeq(S)), RelList(after),
                        Args(FALSE, FALSE, TRUE, FALSE), "linux")

SpecDirs == InitDirs /\ [][Next]_vars

\* Lists as ValidLists asks, a line that maps a path to itself allowed
ValidOrSelfMapped ==
    /\ Len(input_file_list) = Len(output_file_list)
    /\ input_file_list # <<>>
    /\ \A i \in Lines :
        /\ input_file_list[i] # Blank
        /\ output_file_list[i] # Blank
        /\ Src(i)[1] \notin {".", ".."}
        /\ Dst(i)[1] \notin {".", ".."}
        /\ Phys(fs0, Src(i)) \in DOMAIN fs0
    /\ \A i, j \in Lines : i # j => Src(i) # Src(j) /\ Dst(i) # Dst(j)

\* The directories of the initial tree
Dirs0 == {p \in DOMAIN fs0 : fs0[p].kind = "dir"}

\* Some listed entry of directory d is renamed to a path outside d
RenamedOutOf(d) ==
    \E i \in Lines : Front(Src(i)) = d /\ ~IsPrefix(d, Dst(i))

\* The entries of d that the renames leave in it: not listed, mapped to
\* themselves, or part of a cycle
Remaining(d) ==
    {q \in Children(fs0, d) :
        \/ q \notin Srcs
        \/ \E i \in Lines : Src(i) = q /\ Dst(i) = q
        \/ \E k \in 1..Len(cycles) : q \in Range(cycles[k])}

\* C21: when an entry is renamed out of a directory in which other entries
\* remain (not listed, self-mapped or in a cycle), the run does not fail and
\* the directory is not removed.
C21_CleanupStops ==
    \A d \in Dirs0 :
        (ValidOrSelfMapped /\ FreeDests /\ Independent
            /\ RenamedOutOf(d) /\ Remaining(d) # {}) =>
                /\ pc # "aborted"
                /\ d \in DOMAIN fs


\* The source of line i is part of a cycle
InCycle(i) == \E k \in 1..Len(cycles) : Src(i) \in Range(cycles[k])

\* Entry q below d leaves d: it, or a directory below d that holds it, is
\* the source of a chain edge with the destination outside d
LeavesDir(q, d) ==
    \E i \in Lines :
        /\ IsPrefix(Src(i), q)
        /\ IsBelow(Src(i), d)
        /\ ~IsPrefix(d, Dst(i))
        /\ ~InCycle(i)

\* The renames of the chains move every entry out of d: d holds entries, and
\* each entry below it leaves d or is a directory that holds entries
Evacuated(d) ==
    /\ Children(fs0, d) # {}
    /\ \A q \in DOMAIN fs0 :
        IsBelow(q, d) =>
            \/ LeavesDir(q, d)
            \/ q \in Dirs0 /\ Children(fs0, q) # {}

\* d is an ancestor of a destination
HoldsDestination(d) == \E i \in Lines : d \in dirnames(Dst(i))

\* C22: after a completed run, every directory that the renames of the
\* chains evacuate and that is not an ancestor of a destination is gone; so
\* is each ancestor evacuated with it.
C22_EmptiedDirsRemoved ==
    (ValidLists /\ pc = "done" /\ ~args.dry_run) =>
        \A d \in Dirs0 :
            (Evacuated(d) /\ ~HoldsDestination(d)) => d \notin DOMAIN fs

\* A completed run that empties x/y and, with it, x
C22_Witness ==
    /\ ValidLists /\ pc = "done"
    /\ Evacuated(<<"x", "y">>) /\ ~HoldsDestination(<<"x", "y">>)
    /\ Evacuated(<<"x">>) /\ ~HoldsDestination(<<"x">>)
    /\ Srcs = {<<"x", "y", "a">>, <<"x", "y", "b">>, <<"x", "c">>}
    /\ <<"x">> \notin DOMAIN fs
    /\ \E k \in 1..(Len(ops) - 1) :
        /\ ops[k] = Op("rmdir", <<<<"x", "y">>>>)
        /\ ops[k + 1] = Op("rmdir", <<<<"x">>>>)


\* The next operation of the loop is a rename that will be executed
RenameNext ==
    /\ pc \in {"pending", "running"}
    /\ ip < Len(ops)
    /\ ops[ip + 1].cmd = "mv -n"
    /\ ~args.dry_run

\* C23: whenever a rename(src, dst) of the plan is about to be executed, the
\* parent of dst is an existing directory.
C23_ParentExists ==
    RenameNext => isdir(fs, Front(ops[ip + 1].args[2]))


-----------------------------------------------------------------------------
(* Runs on Mac OS X, where names are looked up without regard to case, and  *)
(* on Linux: entries renamed to names that differ in case only             *)
(* (test_same_case)                                                        *)

CaseTree == Tree({<<"a">>, <<"b">>}, {<<"x">>}, EmptyMap)

CaseDests == {<<"A">>, <<"B">>, <<"X">>, <<"a">>, <<"b">>, <<"c">>}

InitCase ==
    \E S \in SUBSET DOMAIN CaseTree :
        /\ Cardinality(S) \in 1..MaxEntries
        /\ \E after \in [1..Cardinality(S) -> CaseDests] :
            /\ Injective(after)
            /\ \E plat \in {"linux", "darwin"} :
                InitWith(CaseTree, RelList(AsSeq(S)), RelList(after),
                         Args(FALSE, FALSE, TRUE, FALSE), plat)

SpecCase == InitCase /\ [][Next]_vars

\* Line i renames an entry to a name that differs in letter case only
CaseOnly(i) == Src(i) # Dst(i) /\ normcase(Src(i)) = normcase(Dst(i))

\* The path of the staged entry
StagingPath(p) == <<TmpName, Last(p)>>

\* The plan stages the source of line i and moves it from there to its
\* destination
StagedRename(i) ==
    \E k, m \in 1..Len(ops) :
        /\ k < m
        /\ ops[k] = Op("mv -n", <<Src(i), StagingPath(Src(i))>>)
        /\ ops[m] = Op("mv -n", <<StagingPath(Src(i)), Dst(i)>>)

\* The entry is stored under exactly this name
Named(tree, p, node) == p \in DOMAIN tree /\ tree[p] = node

\* Line i is carried out as a cycle and ends with the entry under its new name
CaseRenamed(i) ==
    /\ pc \in {"decomposed", "pending", "running", "done", "aborted"} =>
            \E k \in 1..Len(cycles) : cycles[k] = <<Src(i), Dst(i)>>
    /\ Planned => StagedRename(i)
    /\ pc # "aborted"
    /\ <<"exists", Dst(i)>> \notin Range(warnings)
    /\ pc = "done" => Named(fs, Dst(i), fs0[Src(i)])

\* C24 as stated: every case-only rename is a cycle, staged, and succeeds
C24_AnyCaseOnlyRename ==
    (platform = "darwin" /\ ValidLists) =>
        \A i \in Lines : CaseOnly(i) => CaseRenamed(i)


-----------------------------------------------------------------------------
(* Runs that remove symbolic links and a directory that holds symbolic     *)
(* links (test_remove_symlinks, test_recursive_remove_symlinks)            *)

\* Links to a file, to a directory and to nothing, at the top and in t
LinksTree ==
    Tree({<<"a">>, <<"b", "f">>}, {<<"b">>, <<"t">>},
         [p \in {<<"lf">>, <<"ld">>, <<"lz">>, <<"t", "x">>, <<"t", "y">>, <<"t", "z">>} |->
            CASE Last(p) \in {"lf", "x"} -> <<"a">>
              [] Last(p) \in {"ld", "y"} -> <<"b">>
              [] OTHER -> <<"gone">>])

LinksSources == {<<"lf">>, <<"ld">>, <<"lz">>, <<"t">>, <<"a">>}

LinksLines == {Blank, Rel(<<"c">>)}

InitLinks ==
    \E S \in SUBSET LinksSources :
        /\ Cardinality(S) \in 1..MaxEntries
        /\ \E after \in [1..Cardinality(S) -> LinksLines] :
            /\ DistinctUnlessBlank(after)
            /\ \E recursive \in BOOLEAN :
                InitWith(LinksTree, RelList(AsSeq(S)), after,
                         Args(recursive, FALSE, TRUE, FALSE), "linux")

SpecLinks == InitLinks /\ [][Next]_vars

\* The removals that name a symbolic link
LinkRemovals == {p \in Range(removals) : islink(fs0, p)}

\* The entries at and below the target of link p, when it has one
TargetEntries(p) ==
    {q \in DOMAIN fs0 : IsPrefix(fs0[Phys(fs0, p)].to, q)}

\* No line of the batch names the target of link p or an entry around it
TargetUnlisted(p) ==
    \A i \in Lines : \A q \in TargetEntries(p) :
        ~IsPrefix(Src(i), q) /\ ~IsPrefix(q, Src(i))

\* The plan removes link p with rm, and with nothing else
RemovedAsFile(p) ==
    /\ \E k \in 1..Len(ops) : ops[k] = Op("rm", <<p>>)
    /\ \A k \in 1..Len(ops) :
        ops[k].cmd \in {"rmdir", "rm -r"} => ops[k].args[1] # p

\* At the end the link is gone and what it pointed to is as it was
OnlyLinkRemoved(p) ==
    /\ Phys(fs0, p) \notin DOMAIN fs
    /\ TargetUnlisted(p) =>
        \A q \in TargetEntries(p) : q \in DOMAIN fs /\ fs[q] = fs0[q]

\* The next operation is a recursive removal that will be executed
RmtreeNext ==
    /\ pc \in {"pending", "running"}
    /\ ip < Len(ops)
    /\ ops[ip + 1].cmd = "rm -r"
    /\ ~args.dry_run

\* The step removes the directory with all it holds, the links in it
\* included, and leaves every entry outside the directory as it is
RemovesOnlyInside ==
    LET d == Phys(fs, ops[ip + 1].args[1])
    IN  /\ \A q \in DOMAIN fs : IsPrefix(d, q) => q \notin DOMAIN fs'
        /\ \A q \in DOMAIN fs : ~IsPrefix(d, q) => q \in DOMAIN fs' /\ fs'[q] = fs[q]

\* C25: a symbolic link to remove is planned as rm of the link, never rmdir
\* or rm -r, with and without -R, and at the end the link is gone and its
\* target untouched; rm -r of a directory removes the links in it and
\* nothing outside it.
C25_SymlinkRemoval ==
    /\ [](Planned => \A p \in LinkRemovals : RemovedAsFile(p))
    /\ [](pc = "done" /\ ~args.dry_run => \A p \in LinkRemovals : OnlyLinkRemoved(p))
    /\ [][RmtreeNext => RemovesOnlyInside]_vars

\* A completed run with -R that removed the link to a directory and the
\* directory that holds links
C25_Witness ==
    /\ pc = "done"
    /\ args.remove_recursive
    /\ {<<"ld">>, <<"t">>} \subseteq Range(removals)
    /\ \E k \in 1..Len(ops) : ops[k] = Op("rm -r", <<<<"t">>>>)
    /\ {<<"a">>, <<"b">>, <<"b", "f">>} \subseteq DOMAIN fs
    /\ <<"t">> \notin DOMAIN fs


-----------------------------------------------------------------------------
(* The options of the planner                                              *)

\* Every value of the options that the program accepts (parse_args)
Options == {Args(r, d, v, m) : r \in BOOLEAN, d \in BOOLEAN, v \in BOOLEAN, m \in BOOLEAN}

\* No line moves an entry into itself
NoNestedMove == \A i \in Lines : ~inside(Dst(i), Src(i))

\* Some destination has no parent directory
MissingParent == \E i \in Lines : ~isdir(fs0, Front(Dst(i)))

\* The plan holds no creation of a destination's parent and no cleanup
BareRenames(plan) ==
    \A k \in 1..Len(plan) : plan[k].cmd \notin {"mkdir -p", "rmdir"}

\* Executed, the plan fails at some operation
Fails(tree, plan) ==
    \E k \in 1..Len(plan) :
        apply_op(execute_operations(tree, SubSeq(plan, 1, k - 1)), plan[k]).err # ""

\* With options a the planner is in safe mode on the lists of the run: bare
\* renames only, and a rename into a missing parent fails with the directory
\* unchanged
SafePlans(a) ==
    \A plan \in Plans(input_file_list, output_file_list, fs0, a.remove_recursive) :
        /\ BareRenames(plan)
        /\ MissingParent =>
            /\ Fails(fs0, plan)
            /\ execute_operations(fs0, plan) = fs0

\* C26: the planner can be run in safe mode: under some value of its options
\* every non-nested chain edge is planned as the bare rename, so that a
\* rename into a missing parent directory fails and leaves the directory
\* unchanged.
C26_SafeMode ==
    (ValidLists /\ NoNestedMove /\ pc = "pending") =>
        \E a \in Options : SafePlans(a)


-----------------------------------------------------------------------------
(* The walks that decompose_mapping returns                                *)

\* The chains, then the cycles
Walks == paths \o cycles

\* The edges of the mapping
Edges == {<<s, renames[s]>> : s \in DOMAIN renames}

\* The places (walk, position) of the consecutive pairs of the walks
Places == {<<n, k>> \in (1..Len(Walks)) \X (1..(MaxEntries + 2)) : k < Len(Walks[n])}

PairAt(pl) == <<Walks[pl[1]][pl[2]], Walks[pl[1]][pl[2] + 1]>>

\* decompose_mapping has returned and its result is not yet used
Decomposed == pc = "decomposed"

\* C27: every edge of the mapping is a consecutive pair of exactly one walk
\* at exactly one place, every consecutive pair of a walk is an edge, and the
\* mapping of the caller is as it was before the call.
C27_EdgePartition ==
    /\ [](Decomposed =>
            /\ \A e \in Edges : Cardinality({pl \in Places : PairAt(pl) = e}) = 1
            /\ \A pl \in Places : PairAt(pl) \in Edges)
    /\ [][pc = "mapped" => renames' = renames]_vars
    /\ [](Decomposed => renames = generate_mapping(input_file_list, output_file_list).renames)

\* A mapping decomposed into a chain and a cycle
C27_Witness ==
    /\ Decomposed
    /\ Len(paths) = 1
    /\ Len(cycles) = 1
    /\ Cardinality(Edges) = 3


\* The key reached from s by n edges of the mapping, NoPath when the edges
\* end before
RECURSIVE Follow(_, _)
Follow(s, n) ==
    IF n = 0 THEN s
    ELSE IF s \in DOMAIN renames THEN Follow(renames[s], n - 1)
    ELSE NoPath

\* The keys reached from s by one edge or more
Orbit(s) == {Follow(s, n) : n \in 1..Cardinality(DOMAIN renames)} \ {NoPath}

\* The permutation loops of the mapping, each as the set of its keys
Loops == {Orbit(s) : s \in {s \in DOMAIN renames : s \in Orbit(s)}}

\* Keys are compared as they are: normcase is the identity
ExactKeys == platform # "darwin"

\* A walk that returns to the key it started from
Closed(w) == w[1] = Last(w)

\* C28: a walk starts at a key that is a destination only as a closed loop;
\* every chain begins at a key that is nobody's destination and ends at a
\* key that is not a source; no walk continues another; and with exact key
\* comparison there are as many cycles as the mapping has loops.
C28_MaximalChains ==
    Decomposed =>
        /\ \A n \in 1..Len(Walks) :
                Walks[n][1] \in Values(renames) => Closed(Walks[n])
        /\ \A n \in 1..Len(paths) :
                /\ paths[n][1] \notin Values(renames)
                /\ Last(paths[n]) \notin DOMAIN renames
        /\ \A n, m \in 1..Len(Walks) : n # m => Last(Walks[n]) # Walks[m][1]
        /\ ExactKeys => Len(cycles) = Cardinality(Loops)

\* A chain of two edges, returned as one walk
C28_Witness ==
    /\ Decomposed
    /\ \E n \in 1..Len(paths) : Len(paths[n]) = 3
    /\ Cardinality(Edges) = 3


\* The ends of the walk are equal once case-folded
FoldClosed(w) == normcase(w[1]) = normcase(Last(w))

\* C29: the walks returned as cycles are those whose last key equals the
\* first once both are case-folded, the others are returned as chains; where
\* the case-fold is the identity the cycles are the walks that return to
\* their start key.
C29_CycleClassification ==
    Decomposed =>
        /\ \A n \in 1..Len(cycles) : FoldClosed(cycles[n])
        /\ \A n \in 1..Len(paths) : ~FoldClosed(paths[n])
        /\ ExactKeys =>
            /\ \A n \in 1..Len(cycles) : Closed(cycles[n])
            /\ \A n \in 1..Len(paths) : ~Closed(paths[n])

\* A walk that is a cycle by its case-folded ends only, beside a chain
C29_Witness ==
    /\ Decomposed
    /\ ~ExactKeys
    /\ \E n \in 1..Len(cycles) : ~Closed(cycles[n])
    /\ paths # <<>>


-----------------------------------------------------------------------------
(* The staging directory in the plan                                       *)

CreateStaging == Op("mkdir", <<<<TmpName>>>>)

RemoveStaging == Op("rmdir", <<<<TmpName>>>>)

\* Operation k names a path inside the staging directory
NamesStaged(k) ==
    \E n \in 1..Len(ops[k].args) :
        Len(ops[k].args[n]) >= 2 /\ ops[k].args[n][1] = TmpName

\* C30: the plan creates the staging directory at most once, and only when
\* the mapping has a nested move or a cycle; the creation comes before every
\* operation on a path inside the directory; the removal is in the plan once
\* if the creation is, not at all otherwise, and it is the last operation.
C30_StagingLifecycle ==
    Planned =>
        /\ Count(CreateStaging) <= 1
        /\ Count(CreateStaging) = 1 => (NestedEdges # {} \/ cycles # <<>>)
        /\ \A k \in 1..Len(ops) :
                NamesStaged(k) => \E j \in 1..(k - 1) : ops[j] = CreateStaging
        /\ Count(RemoveStaging) = Count(CreateStaging)
        /\ Count(RemoveStaging) = 1 => Last(ops) = RemoveStaging

\* A plan with a nested move that stages in the directory, beside another
\* rename
C30_Witness ==
    /\ Planned
    /\ NestedEdges # {}
    /\ cycles = <<>>
    /\ Count(CreateStaging) = 1
    /\ Last(ops) = RemoveStaging
    /\ Len(paths) = 2

-----------------------------------------------------------------------------
(* C31: for each cycle [p0, ..., pk = p0] the plan renames p0 into the      *)
(* staging directory and then holds the operations of the remaining edges, *)
(* last edge first, each planned as a chain edge is: an edge whose         *)
(* destination lies inside its source goes through the staging directory   *)
(* with the parent of the destination created; the last rename of the      *)
(* cycle is rename(tmp, p1).                                               *)

\* The place of the first element of a cycle in the staging directory
Evacuee(cycle) == <<TmpName, Last(cycle[1])>>

\* The cycle with its first element replaced by its place in staging
StagedCycle(cycle) == [cycle EXCEPT ![1] = Evacuee(cycle)]

\* The operations of the edges of a walk, each planned as a chain edge is,
\* the staging directory being there
AsChainEdges(w) ==
    edges_ops([ops |-> <<>>, tmpdir |-> <<TmpName>>], pairwise_reversed(w)).ops

\* The operations the cycle is to have in the plan
EvacuatedThenChain(cycle) ==
    rename_ops(cycle[1], Evacuee(cycle)) \o AsChainEdges(StagedCycle(cycle))

\* The sequence seg is in the plan, its operations next to each other
InPlan(seg) ==
    \E k \in 0..(Len(ops) - Len(seg)) : SubSeq(ops, k + 1, k + Len(seg)) = seg

\* C31: the plan holds, for every cycle, the evacuation and then the
\* operations of the remaining edges planned as chain edges, ending with the
\* rename from the staging directory onto p1
C31_CycleAsChain ==
    Planned =>
        \A c \in Range(cycles) :
            /\ InPlan(EvacuatedThenChain(c))
            /\ Last(EvacuatedThenChain(c)) = Op("mv -n", <<Evacuee(c), c[2]>>)

-----------------------------------------------------------------------------
(* C32 as stated: a rename whose destination exists when the plan is built  *)
(* is left out of the plan and of the verbose output, as the removal of a  *)
(* directory with entries without -R is; the rest is planned as usual.     *)

\* The sources whose destination exists when the plan is built
OntoExisting == {s \in DOMAIN renames : lexists(fs0, renames[s])}

\* The places of the plan that hold a rename onto the path
RenamesOnto(d) == {k \in 1..Len(ops) : ops[k].cmd = "mv -n" /\ ops[k].args[2] = d}

\* The places of the plan that hold the removal decisions
RemovalPlaces == 2..(1 + Len(Decisions))

\* No removal decision of the plan names a skipped directory
SkippedLeftOut ==
    \A p \in SkippedDirs : \A k \in RemovalPlaces : ops[k].args # <<p>>

-----------------------------------------------------------------------------
(* C33: of two cleanup rmdir operations of the plan, one directory above   *)
(* the other, the lower directory comes first; of two scheduled makedirs,  *)
(* one directory above the other, the upper directory comes first; every   *)
(* scheduled makedirs comes before every chain rename and every cleanup    *)
(* rmdir after every chain rename.  The scheduled makedirs are those of    *)
(* the destination directories that are no source directories; the         *)
(* makedirs inside a nested move belongs to that move.                     *)

\* The place holds the makedirs of a nested move: it follows the rename into
\* the staging directory
InNestedMove(k) ==
    /\ k > 1
    /\ ops[k - 1].cmd = "mv -n"
    /\ ops[k - 1].args[2][1] = TmpName

ScheduledMakedirs ==
    {k \in 1..Len(ops) : ops[k].cmd = "mkdir -p" /\ ~InNestedMove(k)}

\* The rmdir operations that are neither removals of the batch nor the
\* removal of the staging directory
CleanupRmdirs ==
    {k \in 1..Len(ops) : /\ ops[k].cmd = "rmdir"
                         /\ k \notin RemovalPlaces
                         /\ ops[k].args # <<<<TmpName>>>>}

\* The renames of the edges of the chains
ChainRenames ==
    {k \in 1..Len(ops) :
        /\ ops[k].cmd = "mv -n"
        /\ \E p \in Range(paths) :
            ops[k].args[1] \in Range(p) \/ ops[k].args[2] \in Range(p)}

\* C33: directories are created from the top down before the chain renames
\* and cleaned up from the bottom up after them
C33_DirectoryOrder ==
    Planned =>
        /\ \A j, k \in CleanupRmdirs :
            IsBelow(ops[j].args[1], ops[k].args[1]) => j < k
        /\ \A j, k \in ScheduledMakedirs :
            IsBelow(ops[k].args[1], ops[j].args[1]) => j < k
        /\ \A m \in ScheduledMakedirs, r \in ChainRenames : m < r
        /\ \A c \in CleanupRmdirs, r \in ChainRenames : r < c
        /\ {ops[k].args[1] : k \in ScheduledMakedirs} = dst_dirs(paths) \ src_dirs(paths)
        /\ {ops[k].args[1] : k \in CleanupRmdirs} = src_dirs(paths) \ dst_dirs(paths)

\* A plan that creates z and z/w, renames, and cleans up x/y and x
C33_Witness ==
    /\ Planned
    /\ \E j, k \in ScheduledMakedirs : IsBelow(ops[k].args[1], ops[j].args[1])
    /\ \E j, k \in CleanupRmdirs : IsBelow(ops[j].args[1], ops[k].args[1])
    /\ Cardinality(ChainRenames) >= 2

-----------------------------------------------------------------------------
(* C34: with -v every operation is written to the log before its function  *)
(* is called, in the order of the plan: after a completed run or a dry run *)
(* the log is the rendering of the whole plan, the cd line first; after an *)
(* aborted run it is the rendering of the plan up to and including the     *)
(* operation that failed; the cd operation changes nothing.                *)

\* The next operation is the cd line
CdNext ==
    /\ pc \in {"pending", "running"}
    /\ ip < Len(ops)
    /\ ops[ip + 1].cmd = "cd"

\* The log of a verbose run is the rendering of the operations gone through
LogFollowsPlan ==
    (args.verbose /\ Planned) =>
        /\ logfile = Logged(ip)
        /\ pc = "done" =>
            /\ logfile = Logged(Len(ops))
            /\ logfile[1] = render(cd_ops(Cwd)[1])
        /\ pc = "aborted" =>
            /\ ~args.dry_run
            /\ ip >= 1
            /\ error = <<"OSError", ops[ip], error[3]>>
            /\ Last(logfile) = render(ops[ip])

\* C34: the log follows the plan, the failed operation included, and the cd
\* line is first and changes nothing
C34_VerboseLog ==
    /\ []LogFollowsPlan
    /\ [][CdNext => (ip = 0 /\ fs' = fs /\ warnings' = warnings /\ error' = error
                     /\ pc' # "aborted")]_vars

\* A verbose run aborted at an operation after the first two, the failed
\* operation being the last line of the log
C34_Witness ==
    /\ args.verbose /\ pc = "aborted"
    /\ ip >= 3
    /\ fs # fs0
    /\ Last(logfile) = render(ops[ip])

-----------------------------------------------------------------------------
(* C35: for fixed lists and a fixed directory the planning has one result: *)
(* the choice among the keys a walk may start from is fixed, so every      *)
(* planning of the same input gives the same plan, operation by operation, *)
(* and the same dry-run output.                                            *)

\* The plans the planning of the lists of the run may give
PlansOfRun ==
    Plans(input_file_list, output_file_list, fs0, args.remove_recursive)

\* C35: the plan of the run is the only plan its input has
C35_PlanDeterminism ==
    (Planned /\ error = <<>>) => PlansOfRun = {ops}

-----------------------------------------------------------------------------
(* C36: for every valid mapping and directory, the directory the run ends  *)
(* with, and whether the run ends completed or aborted, are the same for   *)
(* every order in which decompose_mapping may extract the chains and the   *)
(* cycles and for every start key of a cycle, also when paths of the       *)
(* mapping lie above or below one another.                                 *)

\* The end of the run that executes the plan of the decomposition d: the
\* directory, and whether an operation failed
Outcome(d, created, cleaned) ==
    LET plan == generate_operations(d.paths, d.cycles, removals, fs0,
                                    args.remove_recursive, created, cleaned).ops
    IN  [fs |-> execute_operations(fs0, plan), aborted |-> Fails(fs0, plan)]

\* The ends of the runs over all decompositions of the mapping
Outcomes ==
    UNION {{Outcome(d, created, cleaned) :
                created \in sorted_by_len(dst_dirs(d.paths) \ src_dirs(d.paths)),
                cleaned \in sorted_by_len_reverse(src_dirs(d.paths) \ dst_dirs(d.paths))} :
            d \in decompose_mapping(renames)}

\* C36: all decompositions of a valid mapping end the run the same way
C36_OrderIndependence ==
    (ValidLists /\ pc = "mapped") => Cardinality(Outcomes) = 1

-----------------------------------------------------------------------------
(* C37: at every point of the execution of a plan the staging directory    *)
(* holds at most one entry: a nested move takes its entry out again before *)
(* the next edge, and a cycle takes its evacuated element out before the   *)
(* next cycle evacuates its own, so two staged entries of the same name    *)
(* never meet; when a run ends completed the staging directory is gone.    *)

\* The entries in the staging directory
StagingEntries == Children(fs, <<TmpName>>)

\* The operation at the place moves an entry into the staging directory
IntoStaging(k) ==
    ops[k].cmd = "mv -n" /\ Front(ops[k].args[2]) = <<TmpName>>

\* The operation at the place moves an entry out of the staging directory
OutOfStaging(k) ==
    ops[k].cmd = "mv -n" /\ Front(ops[k].args[1]) = <<TmpName>>

-----------------------------------------------------------------------------
(* Runs that go on: the loop of decompose_mapping and the loop of           *)
(* execute_operations are sequential code and every call they make         *)
(* returns, so an iteration that can be taken is taken                     *)

SpecLive == Spec /\ WF_vars(DecomposeMapping) /\ WF_vars(ExecuteOperation)

-----------------------------------------------------------------------------
(* C38: decompose_mapping terminates for every finite mapping, each        *)
(* iteration of its loop taking at least one edge; every execution of a    *)
(* plan comes to exactly one of the two ends, completed (all operations    *)
(* gone through) or aborted (the first failure of an operation); after     *)
(* the end no operation is executed, and no operation is tried twice.      *)

\* Every iteration of the loop has given a walk of at least one edge, so
\* there are no more walks than edges
EveryWalkConsumes ==
    pc \in {"decomposed", "pending", "running", "done", "aborted"} =>
        /\ \A k \in 1..Len(Walks) : Len(Walks[k]) >= 2
        /\ Len(Walks) <= Cardinality(DOMAIN renames)

\* What the two ends mean
EndsMeanIt ==
    /\ pc = "done" => (ip = Len(ops) /\ error = <<>>)
    /\ pc = "aborted" =>
        /\ error # <<>>
        /\ error[2] = ops[ip]
    /\ pc \in {"pending", "running"} => (error = <<>> /\ ip < Len(ops))

\* A step of the execution goes on to the next operation
NoRetry ==
    pc \in {"pending", "running"} => (ip' = ip + 1 /\ ops' = ops)

\* C38: the decomposition and the execution come to an end, the end is one
\* of the two, and nothing happens after it
C38_Termination ==
    /\ (pc = "mapped") ~> Decomposed
    /\ (pc = "pending") ~> Finished
    /\ []EveryWalkConsumes
    /\ []EndsMeanIt
    /\ [][NoRetry /\ ~Finished]_vars

\* An aborted run and a completed run, each after a plan of four operations
\* or more from a mapping with two walks
C38_Witness ==
    /\ Finished
    /\ Len(Walks) >= 2
    /\ Len(ops) >= 4
    /\ pc = "aborted" => ip < Len(ops)

=============================================================================
